---- MODULE Spec2Model ----
(***************************************************************************)
(* A model of the chess engine of src/native-lib.cpp (class ChessGame and  *)
(* the JNI boundary functions around the process-wide `game` pointer).     *)
(*                                                                         *)
(* The engine state is the record held by `game`; every member function    *)
(* is an operator from a ChessGame record to its result and the record it  *)
(* leaves behind, translated statement by statement, so that the trial     *)
(* mutations and hand-written restores of the code are computed, not       *)
(* assumed.                                                                *)
(***************************************************************************)
EXTENDS Integers, Sequences, FiniteSets, TLC

VARIABLES game, aiDifficulty, last, scenario, ply, free, searched, asked

vars == <<game, aiDifficulty, last, scenario, ply, free, searched, asked>>

(***************************************************************************)
(* enum PieceType, enum Color, struct Piece, struct Move                   *)
(***************************************************************************)
EMPTY == 0
PAWN == 1
KNIGHT == 2
BISHOP == 3
ROOK == 4
QUEEN == 5
KING == 6

NONE == 0
WHITE == 1
BLACK == 2

Piece(t, c, m) == [type |-> t, color |-> c, hasMoved |-> m]

NoPiece == Piece(EMPTY, NONE, FALSE)

Move(fr, fc, tr, tc, cap, cast, ep, promo) ==
    [fromRow |-> fr, fromCol |-> fc, toRow |-> tr, toCol |-> tc,
     isCapture |-> cap, isCastling |-> cast, isEnPassant |-> ep,
     isPromotion |-> promo, score |-> 0]

NoMove == [fromRow |-> -1, fromCol |-> -1, toRow |-> -1, toCol |-> -1,
           isCapture |-> FALSE, isCastling |-> FALSE, isEnPassant |-> FALSE,
           isPromotion |-> FALSE, score |-> 0]

Opponent(c) == IF c = WHITE THEN BLACK ELSE WHITE

\* A faulty variant of Abs: the sign is kept.
AbsForgotten(x) == x

Abs(x) == IF x < 0 THEN -x ELSE x

(***************************************************************************)
(* ChessGame::initializeBoard                                              *)
(***************************************************************************)
BackRank == <<ROOK, KNIGHT, BISHOP, QUEEN, KING, BISHOP, KNIGHT, ROOK>>

InitialBoard ==
    [r \in 0..7 |-> [c \in 0..7 |->
        CASE r = 0 -> Piece(BackRank[c + 1], BLACK, FALSE)
          [] r = 1 -> Piece(PAWN, BLACK, FALSE)
          [] r = 6 -> Piece(PAWN, WHITE, FALSE)
          [] r = 7 -> Piece(BackRank[c + 1], WHITE, FALSE)
          [] OTHER -> NoPiece]]

initializeBoard ==
    [board |-> InitialBoard,
     currentPlayer |-> WHITE,
     whiteKingMoved |-> FALSE, blackKingMoved |-> FALSE,
     whiteRookAMoved |-> FALSE, whiteRookHMoved |-> FALSE,
     blackRookAMoved |-> FALSE, blackRookHMoved |-> FALSE,
     enPassantCol |-> -1, enPassantRow |-> -1]

\* ChessGame::initializeBoard of src/v2/native-lib.cpp, which also has the
\* clocks and clears the history.
initializeBoard_v2 ==
    [board |-> InitialBoard,
     currentPlayer |-> WHITE,
     whiteKingMoved |-> FALSE, blackKingMoved |-> FALSE,
     whiteRookAMoved |-> FALSE, whiteRookHMoved |-> FALSE,
     blackRookAMoved |-> FALSE, blackRookHMoved |-> FALSE,
     enPassantCol |-> -1, enPassantRow |-> -1,
     halfMoveClock |-> 0, fullMoveNumber |-> 1, moveHistory |-> <<>>]

(***************************************************************************)
(* ChessGame::getPiece, ChessGame::isValidPosition                         *)
(***************************************************************************)
isValidPosition(row, col) == row >= 0 /\ row < 8 /\ col >= 0 /\ col < 8

\* A faulty variant of getPiece: the two digits are swapped.
getPieceTypeFirst(g, row, col) ==
    IF row < 0 \/ row >= 8 \/ col < 0 \/ col >= 8 THEN 0
    ELSE IF g.board[row][col].type = EMPTY THEN 0
    ELSE g.board[row][col].type * 10 + g.board[row][col].color

\* A faulty variant of getPiece: a coordinate off the board is taken for the
\* nearest one on it.
getPieceClamped(g, row, col) ==
    LET r == IF row < 0 THEN 0 ELSE IF row > 7 THEN 7 ELSE row
        c == IF col < 0 THEN 0 ELSE IF col > 7 THEN 7 ELSE col
    IN IF g.board[r][c].type = EMPTY THEN 0
       ELSE g.board[r][c].color * 10 + g.board[r][c].type

getPiece(g, row, col) ==
    IF row < 0 \/ row >= 8 \/ col < 0 \/ col >= 8 THEN 0
    ELSE IF g.board[row][col].type = EMPTY THEN 0
    ELSE g.board[row][col].color * 10 + g.board[row][col].type

SetSq(b, r, c, p) == [b EXCEPT ![r][c] = p]

(***************************************************************************)
(* Pseudo-legal move generation                                            *)
(***************************************************************************)
getPawnMoves(g, row, col) ==
    LET piece == g.board[row][col]
        direction == IF piece.color = WHITE THEN -1 ELSE 1
        startRow == IF piece.color = WHITE THEN 6 ELSE 1
        newRow == row + direction
        forward ==
            IF isValidPosition(newRow, col) /\ g.board[newRow][col].type = EMPTY
            THEN <<Move(row, col, newRow, col, FALSE, FALSE, FALSE,
                        newRow = 0 \/ newRow = 7)>>
                 \o (IF row = startRow
                        /\ g.board[row + 2 * direction][col].type = EMPTY
                     THEN <<Move(row, col, row + 2 * direction, col,
                                 FALSE, FALSE, FALSE, FALSE)>>
                     ELSE <<>>)
            ELSE <<>>
        capture(dcol) ==
            LET newCol == col + dcol IN
            IF isValidPosition(newRow, newCol)
            THEN LET target == g.board[newRow][newCol] IN
                 (IF target.type # EMPTY /\ target.color # piece.color
                  THEN <<Move(row, col, newRow, newCol, TRUE, FALSE, FALSE,
                              newRow = 0 \/ newRow = 7)>>
                  ELSE <<>>)
                 \o (IF newCol = g.enPassantCol /\ newRow = g.enPassantRow
                     THEN <<Move(row, col, newRow, newCol,
                                 TRUE, FALSE, TRUE, FALSE)>>
                     ELSE <<>>)
            ELSE <<>>
    IN forward \o capture(-1) \o capture(1)

KnightOffsets ==
    <<<<-2, -1>>, <<-2, 1>>, <<-1, -2>>, <<-1, 2>>,
      <<1, -2>>, <<1, 2>>, <<2, -1>>, <<2, 1>>>>

KingDirections ==
    <<<<-1, -1>>, <<-1, 0>>, <<-1, 1>>, <<0, -1>>,
      <<0, 1>>, <<1, -1>>, <<1, 0>>, <<1, 1>>>>

BishopDirections == <<<<-1, -1>>, <<-1, 1>>, <<1, -1>>, <<1, 1>>>>

RookDirections == <<<<-1, 0>>, <<1, 0>>, <<0, -1>>, <<0, 1>>>>

\* One step to each offset: the loop shared by getKnightMoves and the first
\* loop of getKingMoves.
RECURSIVE StepMoves(_, _, _, _, _)
StepMoves(g, row, col, offsets, i) ==
    IF i > Len(offsets) THEN <<>>
    ELSE LET newRow == row + offsets[i][1]
             newCol == col + offsets[i][2]
         IN (IF isValidPosition(newRow, newCol)
                /\ (g.board[newRow][newCol].type = EMPTY
                    \/ g.board[newRow][newCol].color # g.board[row][col].color)
             THEN <<Move(row, col, newRow, newCol,
                         g.board[newRow][newCol].type # EMPTY,
                         FALSE, FALSE, FALSE)>>
             ELSE <<>>)
            \o StepMoves(g, row, col, offsets, i + 1)

\* A faulty variant of getKnightMoves: the offsets are those of the king.
getKnightMovesAsKing(g, row, col) == StepMoves(g, row, col, KingDirections, 1)

getKnightMoves(g, row, col) == StepMoves(g, row, col, KnightOffsets, 1)

\* The inner loop of getSlidingMoves: one ray, from distance dist outwards.
RECURSIVE Ray(_, _, _, _, _, _)
Ray(g, row, col, dr, dc, dist) ==
    LET newRow == row + dr * dist
        newCol == col + dc * dist
    IN IF dist >= 8 \/ ~isValidPosition(newRow, newCol) THEN <<>>
       ELSE IF g.board[newRow][newCol].type = EMPTY
            THEN <<Move(row, col, newRow, newCol,
                        FALSE, FALSE, FALSE, FALSE)>>
                 \o Ray(g, row, col, dr, dc, dist + 1)
            ELSE IF g.board[newRow][newCol].color # g.board[row][col].color
                 THEN <<Move(row, col, newRow, newCol,
                             TRUE, FALSE, FALSE, FALSE)>>
                 ELSE <<>>

RECURSIVE getSlidingMoves(_, _, _, _, _)
getSlidingMoves(g, row, col, directions, d) ==
    IF d > Len(directions) THEN <<>>
    ELSE Ray(g, row, col, directions[d][1], directions[d][2], 1)
         \o getSlidingMoves(g, row, col, directions, d + 1)

getBishopMoves(g, row, col) == getSlidingMoves(g, row, col, BishopDirections, 1)

getRookMoves(g, row, col) == getSlidingMoves(g, row, col, RookDirections, 1)

getQueenMoves(g, row, col) == getSlidingMoves(g, row, col, KingDirections, 1)

getKingMoves(g, row, col) ==
    LET piece == g.board[row][col]
        b == g.board
        castle(r, kingMoved, rookHMoved, rookAMoved) ==
            IF kingMoved THEN <<>>
            ELSE (IF ~rookHMoved /\ b[r][5].type = EMPTY /\ b[r][6].type = EMPTY
                  THEN <<Move(r, 4, r, 6, FALSE, TRUE, FALSE, FALSE)>>
                  ELSE <<>>)
                 \o (IF ~rookAMoved /\ b[r][1].type = EMPTY
                        /\ b[r][2].type = EMPTY /\ b[r][3].type = EMPTY
                     THEN <<Move(r, 4, r, 2, FALSE, TRUE, FALSE, FALSE)>>
                     ELSE <<>>)
    IN StepMoves(g, row, col, KingDirections, 1)
       \o (IF piece.color = WHITE
           THEN castle(7, g.whiteKingMoved, g.whiteRookHMoved, g.whiteRookAMoved)
           ELSE IF piece.color = BLACK
           THEN castle(0, g.blackKingMoved, g.blackRookHMoved, g.blackRookAMoved)
           ELSE <<>>)

getPseudoLegalMoves(g, row, col) ==
    LET t == g.board[row][col].type IN
    CASE t = PAWN -> getPawnMoves(g, row, col)
      [] t = KNIGHT -> getKnightMoves(g, row, col)
      [] t = BISHOP -> getBishopMoves(g, row, col)
      [] t = ROOK -> getRookMoves(g, row, col)
      [] t = QUEEN -> getQueenMoves(g, row, col)
      [] t = KING -> getKingMoves(g, row, col)
      [] OTHER -> <<>>

(***************************************************************************)
(* ChessGame::isSquareAttacked, ChessGame::isInCheck                       *)
(***************************************************************************)
\* The inner loop of isSquareAttacked over the moves of one attacker.
Reaches(moves, row, col) ==
    \E i \in 1..Len(moves) :
        /\ moves[i].toRow = row
        /\ moves[i].toCol = col
        /\ ~moves[i].isCastling

isSquareAttacked(g, row, col, attackerColor) ==
    \E r \in 0..7, c \in 0..7 :
        /\ g.board[r][c].type # EMPTY
        /\ g.board[r][c].color = attackerColor
        /\ IF g.board[r][c].type = PAWN
           THEN \E dc \in {-1, 1} :
                    /\ r + (IF attackerColor = WHITE THEN -1 ELSE 1) = row
                    /\ c + dc = col
           ELSE Reaches(getPseudoLegalMoves(g, r, c), row, col)

\* The scan of isInCheck: the first king of the colour in row-major order,
\* <<-1, -1>> when there is none.
FindKing(g, color) ==
    LET kings == {sq \in 0..63 :
                    /\ g.board[sq \div 8][sq % 8].type = KING
                    /\ g.board[sq \div 8][sq % 8].color = color}
    IN IF kings = {} THEN <<-1, -1>>
       ELSE LET k == CHOOSE sq \in kings : \A o \in kings : sq <= o
            IN <<k \div 8, k % 8>>

isInCheck(g, color) ==
    LET k == FindKing(g, color) IN
    IF k[1] = -1 THEN FALSE
    ELSE isSquareAttacked(g, k[1], k[2], Opponent(color))

(***************************************************************************)
(* src/v2/native-lib.cpp: getKingMoves asks isInCheck and isSquareAttacked *)
(* before it offers castling, and isSquareAttacked asks                    *)
(* getPseudoLegalMoves for the moves of every attacker that is not a pawn, *)
(* the king included.  The functions of this chain read the game and write *)
(* nothing, so a call of getKingMoves for a square made while a call for   *)
(* the same square is still running repeats that call and never returns:   *)
(* pending is the set of squares whose getKingMoves call is running, and   *)
(* the field returns of a result says whether the call returns.            *)
(***************************************************************************)
RECURSIVE isSquareAttacked_v2(_, _, _, _, _)

isInCheck_v2(g, color, pending) ==
    LET k == FindKing(g, color) IN
    IF k[1] = -1 THEN [returns |-> TRUE, ret |-> FALSE]
    ELSE isSquareAttacked_v2(g, k[1], k[2], Opponent(color), pending)

\* One more operand of a chain of && : so far holds in so.ret; the operand
\* !isSquareAttacked(row, col, attackerColor) is evaluated only if it does.
AndNotAttacked_v2(so, g, row, col, attackerColor, pending) ==
    IF ~so.returns \/ ~so.ret THEN so
    ELSE LET a == isSquareAttacked_v2(g, row, col, attackerColor, pending)
         IN [returns |-> a.returns, ret |-> a.returns /\ ~a.ret]

\* The castling part of getKingMoves for the king of the row r, once the
\* king is known not to have moved and not to be in check.
Castling_v2(g, r, rookHMoved, rookAMoved, attackerColor, pending) ==
    LET b == g.board
        kingSide ==
            AndNotAttacked_v2(
                AndNotAttacked_v2(
                    [returns |-> TRUE,
                     ret |-> ~rookHMoved /\ b[r][5].type = EMPTY
                             /\ b[r][6].type = EMPTY],
                    g, r, 5, attackerColor, pending),
                g, r, 6, attackerColor, pending)
        queenSide ==
            AndNotAttacked_v2(
                AndNotAttacked_v2(
                    [returns |-> TRUE,
                     ret |-> ~rookAMoved /\ b[r][1].type = EMPTY
                             /\ b[r][2].type = EMPTY /\ b[r][3].type = EMPTY],
                    g, r, 3, attackerColor, pending),
                g, r, 2, attackerColor, pending)
    IN IF ~kingSide.returns THEN [returns |-> FALSE, moves |-> <<>>]
       ELSE IF ~queenSide.returns THEN [returns |-> FALSE, moves |-> <<>>]
       ELSE [returns |-> TRUE,
             moves |-> (IF kingSide.ret
                        THEN <<Move(r, 4, r, 6, FALSE, TRUE, FALSE, FALSE)>>
                        ELSE <<>>)
                       \o (IF queenSide.ret
                           THEN <<Move(r, 4, r, 2, FALSE, TRUE, FALSE, FALSE)>>
                           ELSE <<>>)]

getKingMoves_v2(g, row, col, pending) ==
    IF <<row, col>> \in pending THEN [returns |-> FALSE, moves |-> <<>>]
    ELSE
    LET piece == g.board[row][col]
        running == pending \cup {<<row, col>>}
        steps == StepMoves(g, row, col, KingDirections, 1)
        kingMoved == IF piece.color = WHITE THEN g.whiteKingMoved
                     ELSE g.blackKingMoved
    IN IF piece.color \notin {WHITE, BLACK} \/ kingMoved
       THEN [returns |-> TRUE, moves |-> steps]
       ELSE LET check == isInCheck_v2(g, piece.color, running) IN
            IF ~check.returns THEN [returns |-> FALSE, moves |-> <<>>]
            ELSE IF check.ret THEN [returns |-> TRUE, moves |-> steps]
            ELSE LET castling ==
                         IF piece.color = WHITE
                         THEN Castling_v2(g, 7, g.whiteRookHMoved,
                                          g.whiteRookAMoved, BLACK, running)
                         ELSE Castling_v2(g, 0, g.blackRookHMoved,
                                          g.blackRookAMoved, WHITE, running)
                 IN [returns |-> castling.returns,
                     moves |-> steps \o castling.moves]

getPseudoLegalMoves_v2(g, row, col, pending) ==
    IF g.board[row][col].type = KING
    THEN getKingMoves_v2(g, row, col, pending)
    ELSE [returns |-> TRUE, moves |-> getPseudoLegalMoves(g, row, col)]

\* What the body of the two for loops of isSquareAttacked does at the square
\* sq: 0 if the loops go on, 1 if it returns true, 2 if it does not return.
AttackerAt_v2(g, sq, row, col, attackerColor, pending) ==
    LET r == sq \div 8
        c == sq % 8
        piece == g.board[r][c]
    IN IF piece.type = EMPTY \/ piece.color # attackerColor THEN 0
       ELSE IF piece.type = PAWN
       THEN IF \E dc \in {-1, 1} :
                  /\ r + (IF attackerColor = WHITE THEN -1 ELSE 1) = row
                  /\ c + dc = col
            THEN 1 ELSE 0
       ELSE LET pm == getPseudoLegalMoves_v2(g, r, c, pending) IN
            IF ~pm.returns THEN 2
            ELSE IF Reaches(pm.moves, row, col) THEN 1 ELSE 0

\* The two for loops end at the first square, in the order of the rows and
\* then of the columns, where the body does not go on.
isSquareAttacked_v2(g, row, col, attackerColor, pending) ==
    LET ends == {sq \in 0..63 :
                    AttackerAt_v2(g, sq, row, col, attackerColor, pending) # 0}
    IN IF ends = {} THEN [returns |-> TRUE, ret |-> FALSE]
       ELSE LET first == CHOOSE sq \in ends : \A o \in ends : sq <= o
            IN IF AttackerAt_v2(g, first, row, col, attackerColor, pending) = 1
               THEN [returns |-> TRUE, ret |-> TRUE]
               ELSE [returns |-> FALSE, ret |-> FALSE]

\* A faulty variant of isLegalMove: the check test is left out.
isLegalMoveAlways(g, move) == [legal |-> TRUE, game |-> g]

\* A faulty variant of isLegalMove: the trial move is never taken back.
isLegalMoveNoRestore(g, move) ==
    [legal |-> ~isInCheck(
                   [g EXCEPT !.board =
                       SetSq(SetSq(g.board, move.toRow, move.toCol,
                                   g.board[move.fromRow][move.fromCol]),
                             move.fromRow, move.fromCol, NoPiece)],
                   g.currentPlayer),
     game |-> [g EXCEPT !.board =
                  SetSq(SetSq(g.board, move.toRow, move.toCol,
                              g.board[move.fromRow][move.fromCol]),
                        move.fromRow, move.fromCol, NoPiece)]]

(***************************************************************************)
(* ChessGame::isLegalMove: the trial application, the check test and the   *)
(* restore, in the order of the code.  The result carries the game record  *)
(* the call leaves behind.                                                 *)
(***************************************************************************)
isLegalMove(g, move) ==
    LET b0 == g.board
        tempPiece == b0[move.toRow][move.toCol]
        movingPiece == b0[move.fromRow][move.fromCol]
        tempEnPassantCol == g.enPassantCol
        tempEnPassantRow == g.enPassantRow
        savedPlayer == g.currentPlayer
        b1 == SetSq(SetSq(b0, move.toRow, move.toCol, movingPiece),
                    move.fromRow, move.fromCol, NoPiece)
        captureRow == IF movingPiece.color = WHITE
                      THEN move.toRow + 1 ELSE move.toRow - 1
        capturedPawn == IF move.isEnPassant
                        THEN b1[captureRow][move.toCol] ELSE NoPiece
        b2 == IF move.isEnPassant
              THEN SetSq(b1, captureRow, move.toCol, NoPiece) ELSE b1
        row == move.fromRow
        rookFromCol == IF move.toCol = 6 THEN 7 ELSE 0
        rookToCol == IF move.toCol = 6 THEN 5 ELSE 3
        savedRook == IF move.isCastling THEN b2[row][rookToCol] ELSE NoPiece
        b3 == IF move.isCastling
              THEN SetSq(SetSq(b2, row, rookToCol, b2[row][rookFromCol]),
                         row, rookFromCol, NoPiece)
              ELSE b2
        legal == ~isInCheck([g EXCEPT !.board = b3], savedPlayer)
        b4 == SetSq(SetSq(b3, move.fromRow, move.fromCol, movingPiece),
                    move.toRow, move.toCol, tempPiece)
        b5 == IF move.isEnPassant
              THEN SetSq(b4, captureRow, move.toCol, capturedPawn) ELSE b4
        b6 == IF move.isCastling
              THEN SetSq(SetSq(b5, row, rookFromCol, b5[row][rookToCol]),
                         row, rookToCol, savedRook)
              ELSE b5
    IN [legal |-> legal,
        game |-> [g EXCEPT !.board = b6,
                           !.enPassantCol = tempEnPassantCol,
                           !.enPassantRow = tempEnPassantRow,
                           !.currentPlayer = savedPlayer]]

(***************************************************************************)
(* ChessGame::getLegalMoves                                                *)
(***************************************************************************)
\* The record with which a loop over moves ends.
MovesAndGame(st) == [moves |-> st.moves, game |-> st.game]

\* The body of the for loop of getLegalMoves: r is what isLegalMove(move)
\* returned and left.
LegalStep(st, move, r) ==
    [i |-> st.i + 1,
     moves |-> IF r.legal THEN Append(st.moves, move) ELSE st.moves,
     game |-> r.game]

\* The for loop of getLegalMoves from index st.i up to hi: each isLegalMove
\* call runs on the record the previous call left.  (Here and in the loops
\* below a long run is cut in two halves, which changes nothing but the depth
\* of the evaluation.)
RECURSIVE LegalLoop(_, _, _)
LegalLoop(st, pseudoMoves, hi) ==
    IF st.i > hi THEN st
    ELSE IF st.i = hi
    THEN LegalStep(st, pseudoMoves[st.i],
                   isLegalMove(st.game, pseudoMoves[st.i]))
    ELSE LegalLoop(LegalLoop(st, pseudoMoves, (st.i + hi) \div 2),
                   pseudoMoves, hi)

LegalAmong(g, pseudoMoves) ==
    MovesAndGame(LegalLoop([i |-> 1, moves |-> <<>>, game |-> g],
                           pseudoMoves, Len(pseudoMoves)))

getLegalMoves(g, row, col) ==
    IF ~isValidPosition(row, col) THEN [moves |-> <<>>, game |-> g]
    ELSE IF g.board[row][col].type = EMPTY
            \/ g.board[row][col].color # g.currentPlayer
         THEN [moves |-> <<>>, game |-> g]
         ELSE LegalAmong(g, getPseudoLegalMoves(g, row, col))

(***************************************************************************)
(* ChessGame::executeMoveInternal                                          *)
(***************************************************************************)
\* A faulty variant of CaptureRow: the pawn taken en passant is looked for
\* on the destination square.
CaptureRowDestination(piece, move) == move.toRow

\* The row of the pawn that an en-passant move takes.
CaptureRow(piece, move) ==
    IF piece.color = WHITE THEN move.toRow + 1 ELSE move.toRow - 1

executeMoveInternal(g, move, promotionPiece) ==
    LET b0 == g.board
        piece == b0[move.fromRow][move.fromCol]
        captureRow == CaptureRow(piece, move)
        b1 == IF move.isEnPassant
              THEN SetSq(b0, captureRow, move.toCol, NoPiece) ELSE b0
        b2 == IF move.isCastling
              THEN IF move.toCol = 6
                   THEN SetSq(SetSq(b1, move.fromRow, 5, b1[move.fromRow][7]),
                              move.fromRow, 7, NoPiece)
                   ELSE SetSq(SetSq(b1, move.fromRow, 3, b1[move.fromRow][0]),
                              move.fromRow, 0, NoPiece)
              ELSE b1
        doublePush == piece.type = PAWN
                      /\ Abs(move.fromRow - move.toRow) = 2
        b3 == SetSq(SetSq(b2, move.toRow, move.toCol,
                          [piece EXCEPT !.hasMoved = TRUE]),
                    move.fromRow, move.fromCol, NoPiece)
        b4 == IF move.isPromotion
              THEN [b3 EXCEPT ![move.toRow][move.toCol].type = promotionPiece]
              ELSE b3
    IN [g EXCEPT
          !.board = b4,
          !.enPassantCol = IF doublePush THEN move.fromCol ELSE -1,
          !.enPassantRow = IF doublePush
                           THEN (move.fromRow + move.toRow) \div 2
                           ELSE g.enPassantRow,
          !.whiteKingMoved = g.whiteKingMoved
                             \/ (piece.type = KING /\ piece.color = WHITE),
          !.blackKingMoved = g.blackKingMoved
                             \/ (piece.type = KING /\ piece.color # WHITE),
          !.whiteRookAMoved = g.whiteRookAMoved
              \/ (piece.type = ROOK /\ piece.color = WHITE /\ move.fromCol = 0),
          !.whiteRookHMoved = g.whiteRookHMoved
              \/ (piece.type = ROOK /\ piece.color = WHITE /\ move.fromCol = 7),
          !.blackRookAMoved = g.blackRookAMoved
              \/ (piece.type = ROOK /\ piece.color # WHITE /\ move.fromCol = 0),
          !.blackRookHMoved = g.blackRookHMoved
              \/ (piece.type = ROOK /\ piece.color # WHITE /\ move.fromCol = 7),
          !.currentPlayer = IF g.currentPlayer = WHITE THEN BLACK ELSE WHITE]

(***************************************************************************)
(* ChessGame::makeMove                                                     *)
(***************************************************************************)
\* Index of the first legal move with the requested destination, 0 if none.
FirstMatch(moves, toRow, toCol) ==
    LET hits == {i \in 1..Len(moves) :
                    moves[i].toRow = toRow /\ moves[i].toCol = toCol}
    IN IF hits = {} THEN 0
       ELSE CHOOSE i \in hits : \A j \in hits : i <= j

\* A faulty variant of makeMoveFrom: the destination is not compared.
makeMoveFromFirst(lm, toRow, toCol, promotionPiece) ==
    IF Len(lm.moves) = 0 THEN [ret |-> FALSE, game |-> lm.game]
    ELSE [ret |-> TRUE,
          game |-> executeMoveInternal(lm.game, lm.moves[1], promotionPiece)]

\* A faulty variant of makeMoveFrom: the promotion choice is not applied, the
\* piece stays what it was.
makeMoveFromPawnKept(lm, toRow, toCol, promotionPiece) ==
    LET k == FirstMatch(lm.moves, toRow, toCol) IN
    IF k = 0 THEN [ret |-> FALSE, game |-> lm.game]
    ELSE [ret |-> TRUE,
          game |-> executeMoveInternal(lm.game, lm.moves[k], PAWN)]

\* The loop of makeMove over the legal moves lm that getLegalMoves returned.
makeMoveFrom(lm, toRow, toCol, promotionPiece) ==
    LET k == FirstMatch(lm.moves, toRow, toCol) IN
    IF k = 0 THEN [ret |-> FALSE, game |-> lm.game]
    ELSE [ret |-> TRUE,
          game |-> executeMoveInternal(lm.game, lm.moves[k], promotionPiece)]

makeMove(g, fromRow, fromCol, toRow, toCol, promotionPiece) ==
    makeMoveFrom(getLegalMoves(g, fromRow, fromCol), toRow, toCol,
                 promotionPiece)

(***************************************************************************)
(* ChessGame::evaluateBoard                                                *)
(***************************************************************************)
pieceValues == <<100, 320, 330, 500, 900, 20000>>

pawnTable ==
    <<<<0, 0, 0, 0, 0, 0, 0, 0>>,
      <<50, 50, 50, 50, 50, 50, 50, 50>>,
      <<10, 10, 20, 30, 30, 20, 10, 10>>,
      <<5, 5, 10, 25, 25, 10, 5, 5>>,
      <<0, 0, 0, 20, 20, 0, 0, 0>>,
      <<5, -5, -10, 0, 0, -10, -5, 5>>,
      <<5, 10, 10, -20, -20, 10, 10, 5>>,
      <<0, 0, 0, 0, 0, 0, 0, 0>>>>

knightTable ==
    <<<<-50, -40, -30, -30, -30, -30, -40, -50>>,
      <<-40, -20, 0, 0, 0, 0, -20, -40>>,
      <<-30, 0, 10, 15, 15, 10, 0, -30>>,
      <<-30, 5, 15, 20, 20, 15, 5, -30>>,
      <<-30, 0, 15, 20, 20, 15, 0, -30>>,
      <<-30, 5, 10, 15, 15, 10, 5, -30>>,
      <<-40, -20, 0, 5, 5, 0, -20, -40>>,
      <<-50, -40, -30, -30, -30, -30, -40, -50>>>>

\* A faulty variant of SquareValue: the tables are not mirrored for Black.
SquareValueUnmirrored(g, r, c) ==
    LET piece == g.board[r][c] IN
    IF piece.type = EMPTY THEN 0
    ELSE LET value == pieceValues[piece.type]
             positional ==
                 IF piece.type = PAWN THEN pawnTable[r + 1][c + 1]
                 ELSE IF piece.type = KNIGHT THEN knightTable[r + 1][c + 1]
                 ELSE 0
             center == IF r >= 3 /\ r <= 4 /\ c >= 3 /\ c <= 4 THEN 10 ELSE 0
         IN IF piece.color = WHITE THEN value + positional + center
            ELSE -(value + positional + center)

\* The value the loop body of evaluateBoard adds for square (r, c).
SquareValue(g, r, c) ==
    LET piece == g.board[r][c] IN
    IF piece.type = EMPTY THEN 0
    ELSE LET value == pieceValues[piece.type]
             positional ==
                 IF piece.type = PAWN
                 THEN (IF piece.color = WHITE THEN pawnTable[r + 1][c + 1]
                       ELSE pawnTable[7 - r + 1][c + 1])
                 ELSE IF piece.type = KNIGHT
                 THEN (IF piece.color = WHITE THEN knightTable[r + 1][c + 1]
                       ELSE knightTable[7 - r + 1][c + 1])
                 ELSE 0
             center == IF r >= 3 /\ r <= 4 /\ c >= 3 /\ c <= 4 THEN 10 ELSE 0
         IN IF piece.color = WHITE THEN value + positional + center
            ELSE -(value + positional + center)

\* The sum of SquareValue over the squares lo..hi (row * 8 + col).
RECURSIVE EvalRange(_, _, _)
EvalRange(g, lo, hi) ==
    IF lo = hi THEN SquareValue(g, lo \div 8, lo % 8)
    ELSE EvalRange(g, lo, (lo + hi) \div 2)
         + EvalRange(g, (lo + hi) \div 2 + 1, hi)

evaluateBoard(g) == EvalRange(g, 0, 63)

(***************************************************************************)
(* ChessGame::evaluateBoard of src/v3/native-lib.cpp, with its tables      *)
(***************************************************************************)
pawnTableWhite_v3 ==
    <<<<0, 0, 0, 0, 0, 0, 0, 0>>,
      <<50, 50, 50, 50, 50, 50, 50, 50>>,
      <<10, 10, 20, 30, 30, 20, 10, 10>>,
      <<5, 5, 10, 27, 27, 10, 5, 5>>,
      <<0, 0, 0, 25, 25, 0, 0, 0>>,
      <<5, -5, -10, 0, 0, -10, -5, 5>>,
      <<5, 10, 10, -25, -25, 10, 10, 5>>,
      <<0, 0, 0, 0, 0, 0, 0, 0>>>>

knightTable_v3 ==
    <<<<-50, -40, -30, -30, -30, -30, -40, -50>>,
      <<-40, -20, 0, 5, 5, 0, -20, -40>>,
      <<-30, 5, 10, 15, 15, 10, 5, -30>>,
      <<-30, 0, 15, 20, 20, 15, 0, -30>>,
      <<-30, 5, 15, 20, 20, 15, 5, -30>>,
      <<-30, 0, 10, 15, 15, 10, 0, -30>>,
      <<-40, -20, 0, 0, 0, 0, -20, -40>>,
      <<-50, -40, -20, -30, -30, -20, -40, -50>>>>

bishopTable_v3 ==
    <<<<-20, -10, -10, -10, -10, -10, -10, -20>>,
      <<-10, 5, 0, 0, 0, 0, 5, -10>>,
      <<-10, 10, 10, 10, 10, 10, 10, -10>>,
      <<-10, 0, 10, 10, 10, 10, 0, -10>>,
      <<-10, 5, 5, 10, 10, 5, 5, -10>>,
      <<-10, 0, 5, 10, 10, 5, 0, -10>>,
      <<-10, 0, 0, 0, 0, 0, 0, -10>>,
      <<-20, -10, -40, -10, -10, -40, -10, -20>>>>

rookTable_v3 ==
    <<<<0, 0, 0, 5, 5, 0, 0, 0>>,
      <<-5, 0, 0, 0, 0, 0, 0, -5>>,
      <<-5, 0, 0, 0, 0, 0, 0, -5>>,
      <<-5, 0, 0, 0, 0, 0, 0, -5>>,
      <<-5, 0, 0, 0, 0, 0, 0, -5>>,
      <<-5, 0, 0, 0, 0, 0, 0, -5>>,
      <<5, 10, 10, 10, 10, 10, 10, 5>>,
      <<0, 0, 0, 0, 0, 0, 0, 0>>>>

\* A faulty variant of queenTable_v3: every entry is 0.
queenTableFlat ==
    [r \in 1..8 |-> [c \in 1..8 |-> 0]]

queenTable_v3 ==
    <<<<-20, -10, -10, -5, -5, -10, -10, -20>>,
      <<-10, 0, 5, 0, 0, 0, 0, -10>>,
      <<-10, 5, 5, 5, 5, 5, 0, -10>>,
      <<0, 0, 5, 5, 5, 5, 0, -5>>,
      <<-5, 0, 5, 5, 5, 5, 0, -5>>,
      <<-10, 0, 5, 5, 5, 5, 0, -10>>,
      <<-10, 0, 0, 0, 0, 0, 0, -10>>,
      <<-20, -10, -10, -5, -5, -10, -10, -20>>>>

kingTableMiddle_v3 ==
    <<<<-30, -40, -40, -50, -50, -40, -40, -30>>,
      <<-30, -40, -40, -50, -50, -40, -40, -30>>,
      <<-30, -40, -40, -50, -50, -40, -40, -30>>,
      <<-30, -40, -40, -50, -50, -40, -40, -30>>,
      <<-20, -30, -30, -40, -40, -30, -30, -20>>,
      <<-10, -20, -20, -20, -20, -20, -20, -10>>,
      <<20, 20, 0, 0, 0, 0, 20, 20>>,
      <<20, 30, 10, 0, 0, 10, 30, 20>>>>

kingTableEnd_v3 ==
    <<<<-50, -30, -30, -30, -30, -30, -30, -50>>,
      <<-30, -30, 0, 0, 0, 0, -30, -30>>,
      <<-30, -10, 20, 30, 30, 20, -10, -30>>,
      <<-30, -10, 30, 40, 40, 30, -10, -30>>,
      <<-30, -10, 30, 40, 40, 30, -10, -30>>,
      <<-30, -10, 20, 30, 30, 20, -10, -30>>,
      <<-30, -20, -10, 0, 0, -10, -20, -30>>,
      <<-50, -40, -30, -20, -20, -30, -40, -50>>>>

\* materialCount: the pieces on the board that are no kings.
materialCount_v3(g) ==
    Cardinality({sq \in (0..7) \X (0..7) :
                    /\ g.board[sq[1]][sq[2]].type # EMPTY
                    /\ g.board[sq[1]][sq[2]].type # KING})

\* The table of a piece type.
TableOf_v3(type, isEndgame) ==
    IF type = PAWN THEN pawnTableWhite_v3
    ELSE IF type = KNIGHT THEN knightTable_v3
    ELSE IF type = BISHOP THEN bishopTable_v3
    ELSE IF type = ROOK THEN rookTable_v3
    ELSE IF type = QUEEN THEN queenTable_v3
    ELSE IF isEndgame THEN kingTableEnd_v3
    ELSE kingTableMiddle_v3

\* The value the loop body adds for square (r, c).
SquareValue_v3(g, r, c, isEndgame) ==
    LET piece == g.board[r][c] IN
    IF piece.type = EMPTY THEN 0
    ELSE LET value == pieceValues[piece.type]
             posValue ==
                 IF piece.color = WHITE
                 THEN TableOf_v3(piece.type, isEndgame)[r + 1][c + 1]
                 ELSE TableOf_v3(piece.type, isEndgame)[7 - r + 1][c + 1]
         IN IF piece.color = WHITE THEN value + posValue
            ELSE -(value + posValue)

\* The sum of SquareValue_v3 over the squares lo..hi (row * 8 + col).
RECURSIVE EvalRange_v3(_, _, _, _)
EvalRange_v3(g, lo, hi, isEndgame) ==
    IF lo = hi THEN SquareValue_v3(g, lo \div 8, lo % 8, isEndgame)
    ELSE EvalRange_v3(g, lo, (lo + hi) \div 2, isEndgame)
         + EvalRange_v3(g, (lo + hi) \div 2 + 1, hi, isEndgame)

evaluateBoard_v3(g) == EvalRange_v3(g, 0, 63, materialCount_v3(g) < 12)

(***************************************************************************)
(* src/v2/native-lib.cpp: isLegalMove, getLegalMoves and evaluateBoard,    *)
(* whose mobility bonus sets currentPlayer and asks getLegalMoves for      *)
(* every piece.  The results carry the game record the call leaves behind  *)
(* and whether the call returns.                                          *)
(***************************************************************************)
isLegalMove_v2(g, move) ==
    LET b0 == g.board
        tempPiece == b0[move.toRow][move.toCol]
        movingPiece == b0[move.fromRow][move.fromCol]
        tempEnPassantCol == g.enPassantCol
        tempEnPassantRow == g.enPassantRow
        savedPlayer == g.currentPlayer
        b1 == SetSq(SetSq(b0, move.toRow, move.toCol, movingPiece),
                    move.fromRow, move.fromCol, NoPiece)
        captureRow == IF movingPiece.color = WHITE
                      THEN move.toRow + 1 ELSE move.toRow - 1
        capturedPawn == IF move.isEnPassant
                        THEN b1[captureRow][move.toCol] ELSE NoPiece
        b2 == IF move.isEnPassant
              THEN SetSq(b1, captureRow, move.toCol, NoPiece) ELSE b1
        row == move.fromRow
        rookFromCol == IF move.toCol = 6 THEN 7 ELSE 0
        rookToCol == IF move.toCol = 6 THEN 5 ELSE 3
        savedRook == IF move.isCastling THEN b2[row][rookToCol] ELSE NoPiece
        b3 == IF move.isCastling
              THEN SetSq(SetSq(b2, row, rookToCol, b2[row][rookFromCol]),
                         row, rookFromCol, NoPiece)
              ELSE b2
        check == isInCheck_v2([g EXCEPT !.board = b3], savedPlayer, {})
        b4 == SetSq(SetSq(b3, move.fromRow, move.fromCol, movingPiece),
                    move.toRow, move.toCol, tempPiece)
        b5 == IF move.isEnPassant
              THEN SetSq(b4, captureRow, move.toCol, capturedPawn) ELSE b4
        b6 == IF move.isCastling
              THEN SetSq(SetSq(b5, row, rookFromCol, b5[row][rookToCol]),
                         row, rookToCol, savedRook)
              ELSE b5
    IN [returns |-> check.returns,
        legal |-> check.returns /\ ~check.ret,
        game |-> [g EXCEPT !.board = b6,
                           !.enPassantCol = tempEnPassantCol,
                           !.enPassantRow = tempEnPassantRow,
                           !.currentPlayer = savedPlayer]]

\* The body of the for loop of getLegalMoves: r is what isLegalMove(move)
\* returned and left.
LegalStep_v2(st, move, r) ==
    [i |-> st.i + 1,
     returns |-> r.returns,
     moves |-> IF r.legal THEN Append(st.moves, move) ELSE st.moves,
     game |-> r.game]

\* The for loop of getLegalMoves from index st.i up to hi; it goes no
\* further than a call that does not return.
RECURSIVE LegalLoop_v2(_, _, _)
LegalLoop_v2(st, pseudoMoves, hi) ==
    IF st.i > hi \/ ~st.returns THEN st
    ELSE IF st.i = hi
    THEN LegalStep_v2(st, pseudoMoves[st.i],
                      isLegalMove_v2(st.game, pseudoMoves[st.i]))
    ELSE LegalLoop_v2(LegalLoop_v2(st, pseudoMoves, (st.i + hi) \div 2),
                      pseudoMoves, hi)

LegalAmong_v2(g, pm) ==
    IF ~pm.returns THEN [returns |-> FALSE, moves |-> <<>>, game |-> g]
    ELSE LET st == LegalLoop_v2([i |-> 1, returns |-> TRUE,
                                 moves |-> <<>>, game |-> g],
                                pm.moves, Len(pm.moves))
         IN [returns |-> st.returns, moves |-> st.moves, game |-> st.game]

getLegalMoves_v2(g, row, col) ==
    IF ~isValidPosition(row, col)
    THEN [returns |-> TRUE, moves |-> <<>>, game |-> g]
    ELSE IF g.board[row][col].type = EMPTY
            \/ g.board[row][col].color # g.currentPlayer
         THEN [returns |-> TRUE, moves |-> <<>>, game |-> g]
         ELSE LegalAmong_v2(g, getPseudoLegalMoves_v2(g, row, col, {}))

\* A faulty variant of RestorePlayer_v2: currentPlayer stays what the mobility
\* bonus set it to.
RestorePlayerForgotten(g, savedPlayer) == g

\* currentPlayer = savedPlayer, after the getLegalMoves call of the mobility
\* bonus.
RestorePlayer_v2(g, savedPlayer) == [g EXCEPT !.currentPlayer = savedPlayer]

\* What the mobility bonus leaves and adds for the piece on (r, c): lm is
\* what getLegalMoves(r, c) returned and left.
MobilityDone_v2(st, r, c, savedPlayer, isEndgame, lm) ==
    [i |-> st.i + 1,
     returns |-> lm.returns,
     score |-> st.score + SquareValue_v3(st.game, r, c, isEndgame)
               + (IF st.game.board[r][c].color = WHITE THEN 1 ELSE -1)
                 * (Len(lm.moves) * 2),
     game |-> RestorePlayer_v2(lm.game, savedPlayer)]

\* The body of the second pair of for loops of evaluateBoard at the square
\* st.i (row * 8 + col).  The seven tables of v2 are those of v3.
EvalStep_v2(st, isEndgame) ==
    LET r == st.i \div 8
        c == st.i % 8
        piece == st.game.board[r][c]
    IN IF piece.type = EMPTY THEN [st EXCEPT !.i = st.i + 1]
       ELSE MobilityDone_v2(
                st, r, c, st.game.currentPlayer, isEndgame,
                getLegalMoves_v2(
                    [st.game EXCEPT !.currentPlayer = piece.color], r, c))

RECURSIVE EvalLoop_v2(_, _, _)
EvalLoop_v2(st, hi, isEndgame) ==
    IF st.i > hi \/ ~st.returns THEN st
    ELSE IF st.i = hi THEN EvalStep_v2(st, isEndgame)
    ELSE EvalLoop_v2(EvalLoop_v2(st, (st.i + hi) \div 2, isEndgame),
                     hi, isEndgame)

\* The king safety term that ends evaluateBoard.
KingSafety_v2(st, isEndgame) ==
    IF ~st.returns \/ isEndgame
    THEN [returns |-> st.returns, ret |-> st.score, game |-> st.game]
    ELSE LET w == isInCheck_v2(st.game, WHITE, {}) IN
         IF ~w.returns
         THEN [returns |-> FALSE, ret |-> st.score, game |-> st.game]
         ELSE LET b == isInCheck_v2(st.game, BLACK, {}) IN
              [returns |-> b.returns,
               ret |-> st.score - (IF w.ret THEN 50 ELSE 0)
                       + (IF b.ret THEN 50 ELSE 0),
               game |-> st.game]

evaluateBoard_v2(g) ==
    KingSafety_v2(EvalLoop_v2([i |-> 0, returns |-> TRUE, score |-> 0,
                               game |-> g],
                              63, materialCount_v3(g) < 12),
                  materialCount_v3(g) < 12)

\* What getSmallNoise of src/v2/native-lib.cpp may return.
SmallNoise_v2 == 0..5

\* "Add randomness for lower difficulties" in getBestMove of
\* src/v2/native-lib.cpp: what is added to the score of a candidate, n being
\* what getSmallNoise returned.
NoiseAdded_v2(difficulty, n) ==
    IF difficulty = 1 THEN n * 20
    ELSE IF difficulty = 2 THEN n * 10
    ELSE 0

(***************************************************************************)
(* The search: ChessGame::minimax and ChessGame::getBestMove               *)
(***************************************************************************)
\* One square of the double loop below: lm is what getLegalMoves returned.
AllMovesStep(st, lm) ==
    [i |-> st.i + 1, moves |-> st.moves \o lm.moves, game |-> lm.game]

\* The double loop that opens minimax and getBestMove, from square st.i
\* (row * 8 + col) up to square hi: the legal moves of every piece of the side
\* to move, in row-major order.
RECURSIVE AllMovesLoop(_, _)
AllMovesLoop(st, hi) ==
    IF st.i > hi THEN st
    ELSE IF st.i = hi
    THEN IF st.game.board[st.i \div 8][st.i % 8].color = st.game.currentPlayer
         THEN AllMovesStep(st, getLegalMoves(st.game, st.i \div 8, st.i % 8))
         ELSE [st EXCEPT !.i = st.i + 1]
    ELSE AllMovesLoop(AllMovesLoop(st, (st.i + hi) \div 2), hi)

AllMoves(g) ==
    MovesAndGame(AllMovesLoop([i |-> 0, moves |-> <<>>, game |-> g], 63))

\* "Save state / executeMoveInternal / ... / Restore state" of minimax and of
\* the second loop of getBestMove: the record after the move is undone by
\* hand, given the record `before` the move and the record `after` the
\* recursive call returned.
RestoreAfterTrial(before, after, move) ==
    LET temp == before.board[move.toRow][move.toCol]
        prevPlayer == before.currentPlayer
        captureRow == IF prevPlayer = WHITE
                      THEN move.toRow + 1 ELSE move.toRow - 1
        tempEnPassant == IF move.isEnPassant
                         THEN before.board[captureRow][move.toCol]
                         ELSE NoPiece
        b1 == SetSq(after.board, move.fromRow, move.fromCol,
                    after.board[move.toRow][move.toCol])
        b2 == SetSq(b1, move.toRow, move.toCol, temp)
        b3 == IF move.isEnPassant
              THEN SetSq(b2, captureRow, move.toCol, tempEnPassant) ELSE b2
    IN [after EXCEPT
          !.currentPlayer = prevPlayer,
          !.board = b3,
          !.enPassantCol = before.enPassantCol,
          !.enPassantRow = before.enPassantRow,
          !.whiteKingMoved = before.whiteKingMoved,
          !.blackKingMoved = before.blackKingMoved,
          !.whiteRookAMoved = before.whiteRookAMoved,
          !.whiteRookHMoved = before.whiteRookHMoved,
          !.blackRookAMoved = before.blackRookAMoved,
          !.blackRookHMoved = before.blackRookHMoved]

Max(a, b) == IF a > b THEN a ELSE b

Min(a, b) == IF a < b THEN a ELSE b

\* The body of the for loop of either branch of minimax for `move`, the n-th
\* and last being allMoves[n]: r is what the recursive call returned and
\* left.  st holds the record, alpha, beta and the running maxEval or minEval
\* (val); the break moves i past the end.
MinimaxStep(st, move, r, maximizing, n) ==
    LET alpha == IF maximizing THEN Max(st.alpha, r.val) ELSE st.alpha
        beta == IF maximizing THEN st.beta ELSE Min(st.beta, r.val)
    IN [i |-> IF beta <= alpha THEN n + 1 ELSE st.i + 1,
        game |-> RestoreAfterTrial(st.game, r.game, move),
        val |-> IF maximizing THEN Max(st.val, r.val) ELSE Min(st.val, r.val),
        alpha |-> alpha,
        beta |-> beta]

\* The record with which minimax returns.
ValAndGame(st) == [val |-> st.val, game |-> st.game]

RECURSIVE minimax(_, _, _, _, _)
RECURSIVE MinimaxLoop(_, _, _, _, _)
\* The for loop of either branch of minimax from index st.i up to hi.
MinimaxLoop(st, allMoves, hi, depth, maximizing) ==
    IF st.i > hi THEN st
    ELSE IF st.i = hi
    THEN MinimaxStep(st, allMoves[st.i],
                     minimax(executeMoveInternal(st.game, allMoves[st.i],
                                                 QUEEN),
                             depth - 1, st.alpha, st.beta, ~maximizing),
                     maximizing, Len(allMoves))
    ELSE MinimaxLoop(MinimaxLoop(st, allMoves, (st.i + hi) \div 2,
                                 depth, maximizing),
                     allMoves, hi, depth, maximizing)

\* minimax from "if (allMoves.empty())" on: am is what the double loop
\* collected and left.
MinimaxOver(am, depth, alpha, beta, maximizing) ==
    IF Len(am.moves) = 0
    THEN [val |-> IF isInCheck(am.game, am.game.currentPlayer)
                  THEN (IF maximizing THEN -999999 ELSE 999999)
                  ELSE 0,
          game |-> am.game]
    ELSE ValAndGame(MinimaxLoop(
             [i |-> 1, game |-> am.game,
              val |-> IF maximizing THEN -999999 ELSE 999999,
              alpha |-> alpha, beta |-> beta],
             am.moves, Len(am.moves), depth, maximizing))

minimax(g, depth, alpha, beta, maximizing) ==
    IF depth = 0 THEN [val |-> evaluateBoard(g), game |-> g]
    ELSE MinimaxOver(AllMoves(g), depth, alpha, beta, maximizing)

\* The random generator of one getBestMove call.  Its stream is one of a
\* bounded family, named by `seed`: smallNoise(rng) for the i-th move and
\* coinFlip(rng) for every tie.
smallNoise(seed, i) == (seed * i) % 3

coinFlip(seed) == seed % 2

\* "Restore state manually" in the first loop of getBestMove: the trial move
\* (ex is the record executeMoveInternal left) is undone from movingPiece and
\* tempPiece only.
OrderingRestore(g, ex, move) ==
    LET tempPiece == g.board[move.toRow][move.toCol]
        movingPiece == g.board[move.fromRow][move.fromCol]
        prevPlayer == g.currentPlayer
        captureRow == IF prevPlayer = WHITE
                      THEN move.toRow + 1 ELSE move.toRow - 1
        b1 == SetSq(SetSq(ex.board, move.fromRow, move.fromCol, movingPiece),
                    move.toRow, move.toCol, tempPiece)
    IN [ex EXCEPT
          !.currentPlayer = prevPlayer,
          !.board = IF move.isEnPassant
                    THEN SetSq(b1, captureRow, move.toCol,
                               Piece(PAWN, Opponent(prevPlayer), FALSE))
                    ELSE b1,
          !.enPassantCol = g.enPassantCol,
          !.enPassantRow = g.enPassantRow]

\* "Quick evaluation for move ordering": the score the first loop of
\* getBestMove gives allMoves[i], g being the record before the trial and g2
\* the record after the restore.
OrderingScore(g, g2, move, i, seed, givesCheck) ==
    (IF g.board[move.toRow][move.toCol].type # EMPTY THEN 100 ELSE 0)
    + (IF move.toRow >= 3 /\ move.toRow <= 4
          /\ move.toCol >= 3 /\ move.toCol <= 4 THEN 10 ELSE 0)
    + smallNoise(seed, i)
    + (IF givesCheck THEN 20 ELSE 0)
    + (IF g2.board[move.fromRow][move.fromCol].type = PAWN
       THEN (IF g2.currentPlayer = WHITE THEN 7 - move.toRow ELSE move.toRow)
            \div 2
       ELSE 0)
    + (IF move.isPromotion THEN 80 ELSE 0)

OrderingDone(st, move, seed, givesCheck, g2) ==
    [i |-> st.i + 1,
     moves |-> [st.moves EXCEPT ![st.i].score =
                    OrderingScore(st.game, g2, move, st.i, seed, givesCheck)],
     game |-> g2]

\* The body of the first loop of getBestMove; ex is the record
\* executeMoveInternal(move, QUEEN) left.
OrderingStep(st, move, seed, ex) ==
    OrderingDone(st, move, seed,
                 isInCheck(ex, Opponent(st.game.currentPlayer)),
                 OrderingRestore(st.game, ex, move))

\* The first loop of getBestMove from index st.i up to hi.
RECURSIVE OrderingLoop(_, _, _)
OrderingLoop(st, hi, seed) ==
    IF st.i > hi THEN st
    ELSE IF st.i = hi
    THEN OrderingStep(st, st.moves[st.i], seed,
                      executeMoveInternal(st.game, st.moves[st.i], QUEEN))
    ELSE OrderingLoop(OrderingLoop(st, (st.i + hi) \div 2, seed), hi, seed)

\* std::sort with the comparator a.score > b.score.  The order std::sort
\* gives moves of equal score is unspecified; of the orders it may produce
\* this is the one in which they keep their places.
SortByScore(moves) ==
    LET n == Len(moves)
        rank(i) == Cardinality({j \in 1..n :
                        \/ moves[j].score > moves[i].score
                        \/ (moves[j].score = moves[i].score /\ j < i)}) + 1
    IN [k \in 1..n |-> moves[CHOOSE i \in 1..n : rank(i) = k]]

\* A faulty variant of Better: every candidate replaces the best so far.
BetterAlways(prevPlayer, score, bestScore, seed) == TRUE

\* "Updated tie-breaking logic"
Better(prevPlayer, score, bestScore, seed) ==
    \/ /\ prevPlayer = WHITE
       /\ (score > bestScore \/ (score = bestScore /\ coinFlip(seed) = 1))
    \/ /\ prevPlayer = BLACK
       /\ (score < bestScore \/ (score = bestScore /\ coinFlip(seed) = 1))

\* The body of the second loop of getBestMove from "Restore state" on: r is
\* what minimax returned and left.  st holds the record, bestMove and
\* bestScore, and the scores of the moves tried so far.
RootStep(st, move, r, seed) ==
    LET better == Better(st.game.currentPlayer, r.val, st.bestScore, seed)
    IN [i |-> st.i + 1,
        game |-> RestoreAfterTrial(st.game, r.game, move),
        scores |-> Append(st.scores, r.val),
        bestMove |-> IF better THEN move ELSE st.bestMove,
        bestScore |-> IF better THEN r.val ELSE st.bestScore]

\* The body of the second loop of getBestMove; ex is the record
\* executeMoveInternal(move, QUEEN) left.
RootTrial(st, move, ex, depth, seed) ==
    RootStep(st, move,
             minimax(ex, depth - 1, -999999, 999999, ex.currentPlayer = BLACK),
             seed)

\* "Evaluate each move": the second loop of getBestMove from index st.i up to
\* hi.
RECURSIVE RootLoop(_, _, _, _, _)
RootLoop(st, allMoves, hi, depth, seed) ==
    IF st.i > hi THEN st
    ELSE IF st.i = hi
    THEN RootTrial(st, allMoves[st.i],
                   executeMoveInternal(st.game, allMoves[st.i], QUEEN),
                   depth, seed)
    ELSE RootLoop(RootLoop(st, allMoves, (st.i + hi) \div 2, depth, seed),
                  allMoves, hi, depth, seed)

\* The record with which getBestMove returns.
MoveAndGame(st) == [move |-> st.bestMove, game |-> st.game]

\* What the second loop of getBestMove leaves.
RootSearch(g, allMoves, depth, seed) ==
    RootLoop(
        [i |-> 1, game |-> g, bestMove |-> allMoves[1], scores |-> <<>>,
         bestScore |-> IF g.currentPlayer = WHITE THEN -999999 ELSE 999999],
        allMoves, Len(allMoves), depth, seed)

\* getBestMove from "Move bestMove = allMoves[0]" on.
BestAmong(g, allMoves, depth, seed) ==
    MoveAndGame(RootSearch(g, allMoves, depth, seed))

\* getBestMove from the sort on: ord is what the first loop left.
BestSorted(ord, depth, seed) ==
    BestAmong(ord.game, SortByScore(ord.moves), depth, seed)

\* getBestMove from "if (allMoves.empty())" on: am is what the double loop
\* collected and left.
BestOver(am, depth, seed) ==
    IF Len(am.moves) = 0 THEN [move |-> NoMove, game |-> am.game]
    ELSE BestSorted(OrderingLoop([i |-> 1, moves |-> am.moves,
                                  game |-> am.game], Len(am.moves), seed),
                    depth, seed)

getBestMove(g, depth, seed) == BestOver(AllMoves(g), depth, seed)

(***************************************************************************)
(* src/v2/native-lib.cpp: the record has two clocks and the move history,  *)
(* and executeMoveInternal keeps them.                                     *)
(***************************************************************************)
\* The v2 record of the position g, with the history h.
WithHistory(g, h) ==
    [board |-> g.board,
     currentPlayer |-> g.currentPlayer,
     whiteKingMoved |-> g.whiteKingMoved, blackKingMoved |-> g.blackKingMoved,
     whiteRookAMoved |-> g.whiteRookAMoved,
     whiteRookHMoved |-> g.whiteRookHMoved,
     blackRookAMoved |-> g.blackRookAMoved,
     blackRookHMoved |-> g.blackRookHMoved,
     enPassantCol |-> g.enPassantCol, enPassantRow |-> g.enPassantRow,
     halfMoveClock |-> 0, fullMoveNumber |-> 1, moveHistory |-> h]

\* A faulty variant of PushHistory_v2: nothing is appended.
PushHistoryForgotten(h, move) == h

\* moveHistory.push_back(move)
PushHistory_v2(h, move) == Append(h, move)

executeMoveInternal_v2(g, move, promotionPiece) ==
    LET b0 == g.board
        piece == b0[move.fromRow][move.fromCol]
        captureRow == IF piece.color = WHITE
                      THEN move.toRow + 1 ELSE move.toRow - 1
        b1 == IF move.isEnPassant
              THEN SetSq(b0, captureRow, move.toCol, NoPiece) ELSE b0
        b2 == IF move.isCastling
              THEN IF move.toCol = 6
                   THEN SetSq(SetSq(b1, move.fromRow, 5,
                                    [b1[move.fromRow][7]
                                        EXCEPT !.hasMoved = TRUE]),
                              move.fromRow, 7, NoPiece)
                   ELSE SetSq(SetSq(b1, move.fromRow, 3,
                                    [b1[move.fromRow][0]
                                        EXCEPT !.hasMoved = TRUE]),
                              move.fromRow, 0, NoPiece)
              ELSE b1
        doublePush == piece.type = PAWN
                      /\ Abs(move.fromRow - move.toRow) = 2
        b3 == SetSq(SetSq(b2, move.toRow, move.toCol,
                          [piece EXCEPT !.hasMoved = TRUE]),
                    move.fromRow, move.fromCol, NoPiece)
        b4 == IF move.isPromotion
              THEN [b3 EXCEPT ![move.toRow][move.toCol].type = promotionPiece]
              ELSE b3
    IN [g EXCEPT
          !.board = b4,
          !.enPassantCol = IF doublePush THEN move.fromCol ELSE -1,
          !.enPassantRow = IF doublePush
                           THEN (move.fromRow + move.toRow) \div 2 ELSE -1,
          !.halfMoveClock = IF piece.type = PAWN \/ move.isCapture
                            THEN 0 ELSE g.halfMoveClock + 1,
          !.whiteKingMoved = g.whiteKingMoved
                             \/ (piece.type = KING /\ piece.color = WHITE),
          !.blackKingMoved = g.blackKingMoved
                             \/ (piece.type = KING /\ piece.color # WHITE),
          !.whiteRookAMoved = g.whiteRookAMoved
              \/ (piece.type = ROOK /\ piece.color = WHITE /\ move.fromCol = 0),
          !.whiteRookHMoved = g.whiteRookHMoved
              \/ (piece.type = ROOK /\ piece.color = WHITE /\ move.fromCol = 7),
          !.blackRookAMoved = g.blackRookAMoved
              \/ (piece.type = ROOK /\ piece.color # WHITE /\ move.fromCol = 0),
          !.blackRookHMoved = g.blackRookHMoved
              \/ (piece.type = ROOK /\ piece.color # WHITE /\ move.fromCol = 7),
          !.fullMoveNumber = IF g.currentPlayer = BLACK
                             THEN g.fullMoveNumber + 1 ELSE g.fullMoveNumber,
          !.currentPlayer = IF g.currentPlayer = WHITE THEN BLACK ELSE WHITE,
          !.moveHistory = PushHistory_v2(g.moveHistory, move)]

(***************************************************************************)
(* src/v2/native-lib.cpp: scoreMoveOrdering and quiescence.  As above, the *)
(* results say whether the call returns and carry the record it leaves.    *)
(***************************************************************************)
\* scoreMoveOrdering reads the board, puts the moving piece on the
\* destination for the attack test and takes it back.  move.capturedPiece is
\* what the generator found on the destination, or the pawn taken en passant.
scoreMoveOrdering_v2(g, move) ==
    LET capturedType == IF move.isEnPassant THEN PAWN
                        ELSE g.board[move.toRow][move.toCol].type
        movingPiece == g.board[move.fromRow][move.fromCol]
        temp == [g EXCEPT !.board =
                    SetSq(SetSq(g.board, move.toRow, move.toCol, movingPiece),
                          move.fromRow, move.fromCol, NoPiece)]
        attacked == isSquareAttacked_v2(temp, move.toRow, move.toCol,
                                        Opponent(g.currentPlayer), {})
    IN [returns |-> attacked.returns,
        ret |-> (IF capturedType # EMPTY
                 THEN 10 * pieceValues[capturedType]
                      - pieceValues[movingPiece.type]
                 ELSE 0)
                + (IF move.isPromotion THEN 800 ELSE 0)
                + (IF move.toRow >= 3 /\ move.toRow <= 4
                      /\ move.toCol >= 3 /\ move.toCol <= 4 THEN 20 ELSE 0)
                - (IF attacked.returns /\ attacked.ret THEN 50 ELSE 0)]

\* "move.score = scoreMoveOrdering(move)" for the move st.i: sc is what the
\* call returned.
ScoreStep_v2(st, sc) ==
    [i |-> st.i + 1,
     returns |-> sc.returns,
     moves |-> [st.moves EXCEPT ![st.i].score = sc.ret]]

RECURSIVE ScoreLoop_v2(_, _, _)
ScoreLoop_v2(st, g, hi) ==
    IF st.i > hi \/ ~st.returns THEN st
    ELSE IF st.i = hi
    THEN ScoreStep_v2(st, scoreMoveOrdering_v2(g, st.moves[st.i]))
    ELSE ScoreLoop_v2(ScoreLoop_v2(st, g, (st.i + hi) \div 2), g, hi)

\* The scoring loop and the sort that follow the collection of the moves in
\* getBestMove, minimax and quiescence: am is what the collection left.
Ordered_v2(am) ==
    IF ~am.returns THEN am
    ELSE LET st == ScoreLoop_v2([i |-> 1, returns |-> TRUE,
                                 moves |-> am.moves],
                                am.game, Len(am.moves))
         IN [returns |-> st.returns,
             moves |-> IF st.returns THEN SortByScore(st.moves) ELSE <<>>,
             game |-> am.game]

\* The moves of lm.moves that quiescence keeps.
CapturesOf(moves) ==
    SelectSeq(moves, LAMBDA m : m.isCapture \/ m.isPromotion)

\* One square of the double loop that collects the moves: lm is what
\* getLegalMoves returned and left.
AllMovesStep_v2(st, lm, capturesOnly) ==
    [i |-> st.i + 1,
     returns |-> lm.returns,
     moves |-> st.moves \o (IF capturesOnly THEN CapturesOf(lm.moves)
                            ELSE lm.moves),
     game |-> lm.game]

\* The double loop that opens getBestMove, minimax and (keeping the captures
\* and promotions only) quiescence.
RECURSIVE AllMovesLoop_v2(_, _, _)
AllMovesLoop_v2(st, hi, capturesOnly) ==
    IF st.i > hi \/ ~st.returns THEN st
    ELSE IF st.i = hi
    THEN IF st.game.board[st.i \div 8][st.i % 8].color = st.game.currentPlayer
         THEN AllMovesStep_v2(st, getLegalMoves_v2(st.game, st.i \div 8,
                                                   st.i % 8),
                              capturesOnly)
         ELSE [st EXCEPT !.i = st.i + 1]
    ELSE AllMovesLoop_v2(AllMovesLoop_v2(st, (st.i + hi) \div 2, capturesOnly),
                         hi, capturesOnly)

AllMoves_v2(g, capturesOnly) ==
    LET st == AllMovesLoop_v2([i |-> 0, returns |-> TRUE, moves |-> <<>>,
                               game |-> g], 63, capturesOnly)
    IN [returns |-> st.returns, moves |-> st.moves, game |-> st.game]

\* The restore of quiescence after a trial move: the record `before` the
\* move, the record `after` the recursive call returned.
QuiescenceRestore_v2(before, after, move) ==
    [after EXCEPT
       !.currentPlayer = before.currentPlayer,
       !.board = SetSq(SetSq(after.board, move.fromRow, move.fromCol,
                             after.board[move.toRow][move.toCol]),
                       move.toRow, move.toCol,
                       before.board[move.toRow][move.toCol]),
       !.enPassantCol = before.enPassantCol,
       !.enPassantRow = before.enPassantRow]

\* The body of the last loop of quiescence: r is what the recursive call
\* returned and left.  cut says that the loop was left by "return beta".
QuiescenceStep_v2(st, move, r, beta) ==
    [i |-> st.i + 1,
     returns |-> r.returns,
     cut |-> r.returns /\ -r.val >= beta,
     alpha |-> IF r.returns /\ -r.val < beta /\ -r.val > st.alpha
               THEN -r.val ELSE st.alpha,
     game |-> QuiescenceRestore_v2(st.game, r.game, move)]

RECURSIVE quiescence_v2(_, _, _, _)
RECURSIVE QuiescenceLoop_v2(_, _, _, _, _)
QuiescenceLoop_v2(st, moves, hi, beta, depth) ==
    IF st.i > hi \/ ~st.returns \/ st.cut THEN st
    ELSE IF st.i = hi
    THEN QuiescenceStep_v2(
             st, moves[st.i],
             quiescence_v2(executeMoveInternal_v2(st.game, moves[st.i], QUEEN),
                           -beta, -st.alpha, depth - 1),
             beta)
    ELSE QuiescenceLoop_v2(
             QuiescenceLoop_v2(st, moves, (st.i + hi) \div 2, beta, depth),
             moves, hi, beta, depth)

\* quiescence from the collection of the captures on: cm is what the
\* collection, the scoring and the sort left, alpha already raised to the
\* stand-pat value.
QuiescenceOver_v2(cm, alpha, beta, depth) ==
    IF ~cm.returns THEN [returns |-> FALSE, val |-> 0, game |-> cm.game]
    ELSE LET st == QuiescenceLoop_v2(
                       [i |-> 1, returns |-> TRUE, cut |-> FALSE,
                        alpha |-> alpha, game |-> cm.game],
                       cm.moves, Len(cm.moves), beta, depth)
         IN [returns |-> st.returns,
             val |-> IF st.cut THEN beta ELSE st.alpha,
             game |-> st.game]

\* A faulty variant of QuiescenceFrom_v2: the static evaluation is neither a
\* cutoff test nor a lower bound.
QuiescenceFromNoStandPat(e, alpha, beta, depth) ==
    IF ~e.returns THEN [returns |-> FALSE, val |-> 0, game |-> e.game]
    ELSE IF depth = 0 THEN [returns |-> TRUE, val |-> e.ret, game |-> e.game]
    ELSE QuiescenceOver_v2(Ordered_v2(AllMoves_v2(e.game, TRUE)),
                           alpha, beta, depth)

\* quiescence from "if (depth == 0)" on: e is what evaluateBoard returned and
\* left.
QuiescenceFrom_v2(e, alpha, beta, depth) ==
    IF ~e.returns THEN [returns |-> FALSE, val |-> 0, game |-> e.game]
    ELSE IF depth = 0 THEN [returns |-> TRUE, val |-> e.ret, game |-> e.game]
    ELSE IF e.ret >= beta THEN [returns |-> TRUE, val |-> beta, game |-> e.game]
    ELSE QuiescenceOver_v2(Ordered_v2(AllMoves_v2(e.game, TRUE)),
                           Max(alpha, e.ret), beta, depth)

quiescence_v2(g, alpha, beta, depth) ==
    QuiescenceFrom_v2(evaluateBoard_v2(g), alpha, beta, depth)

(***************************************************************************)
(* src/v2/native-lib.cpp: minimax and getBestMove                          *)
(***************************************************************************)
\* std::numeric_limits<int>::min() and max()
IntMin == -2147483647 - 1

IntMax == 2147483647

\* The body of the for loop of either branch of minimax, as MinimaxStep, for
\* a recursive call that may not return.
MinimaxStep_v2(st, move, r, maximizing, n) ==
    LET alpha == IF maximizing THEN Max(st.alpha, r.val) ELSE st.alpha
        beta == IF maximizing THEN st.beta ELSE Min(st.beta, r.val)
    IN [i |-> IF beta <= alpha THEN n + 1 ELSE st.i + 1,
        returns |-> r.returns,
        game |-> RestoreAfterTrial(st.game, r.game, move),
        val |-> IF maximizing THEN Max(st.val, r.val) ELSE Min(st.val, r.val),
        alpha |-> alpha,
        beta |-> beta]

RECURSIVE minimax_v2(_, _, _, _, _)
RECURSIVE MinimaxLoop_v2(_, _, _, _, _)
MinimaxLoop_v2(st, allMoves, hi, depth, maximizing) ==
    IF st.i > hi \/ ~st.returns THEN st
    ELSE IF st.i = hi
    THEN MinimaxStep_v2(st, allMoves[st.i],
                        minimax_v2(executeMoveInternal_v2(st.game,
                                                          allMoves[st.i],
                                                          QUEEN),
                                   depth - 1, st.alpha, st.beta, ~maximizing),
                        maximizing, Len(allMoves))
    ELSE MinimaxLoop_v2(MinimaxLoop_v2(st, allMoves, (st.i + hi) \div 2,
                                       depth, maximizing),
                        allMoves, hi, depth, maximizing)

\* minimax once the moves are scored and sorted: om is what that left.
MinimaxSorted_v2(om, depth, alpha, beta, maximizing) ==
    IF ~om.returns THEN [returns |-> FALSE, val |-> 0, game |-> om.game]
    ELSE LET st == MinimaxLoop_v2(
                       [i |-> 1, returns |-> TRUE, game |-> om.game,
                        val |-> IF maximizing THEN IntMin ELSE IntMax,
                        alpha |-> alpha, beta |-> beta],
                       om.moves, Len(om.moves), depth, maximizing)
         IN [returns |-> st.returns, val |-> st.val, game |-> st.game]

\* "if (allMoves.empty())": ck is what isInCheck(currentPlayer) returned.
MinimaxNoMove_v2(am, ck, maximizing) ==
    [returns |-> ck.returns,
     val |-> IF ck.ret THEN (IF maximizing THEN -999999 ELSE 999999) ELSE 0,
     game |-> am.game]

\* minimax from "if (allMoves.empty())" on: am is what the double loop
\* collected and left.
MinimaxOver_v2(am, depth, alpha, beta, maximizing) ==
    IF ~am.returns THEN [returns |-> FALSE, val |-> 0, game |-> am.game]
    ELSE IF Len(am.moves) = 0
    THEN MinimaxNoMove_v2(am, isInCheck_v2(am.game, am.game.currentPlayer, {}),
                          maximizing)
    ELSE MinimaxSorted_v2(Ordered_v2(am), depth, alpha, beta, maximizing)

minimax_v2(g, depth, alpha, beta, maximizing) ==
    IF depth = 0 THEN quiescence_v2(g, alpha, beta, 2)
    ELSE MinimaxOver_v2(AllMoves_v2(g, FALSE), depth, alpha, beta, maximizing)

\* getSmallNoise() for the i-th candidate, in the random stream `seed`.
getSmallNoise_v2(seed, i) == (seed * i) % 6

\* The body of the loop of getBestMove from the restore on: r is what minimax
\* returned and left.
RootStep_v2(st, move, r, difficulty, seed) ==
    LET score == r.val
                 + NoiseAdded_v2(difficulty, getSmallNoise_v2(seed, st.i))
        better == Better(st.game.currentPlayer, score, st.bestScore, seed)
    IN [i |-> st.i + 1,
        returns |-> r.returns,
        game |-> RestoreAfterTrial(st.game, r.game, move),
        bestMove |-> IF better THEN move ELSE st.bestMove,
        bestScore |-> IF better THEN score ELSE st.bestScore]

\* The body of the loop of getBestMove; ex is the record
\* executeMoveInternal(move, QUEEN) left.
RootTrial_v2(st, move, ex, depth, difficulty, seed) ==
    RootStep_v2(st, move,
                minimax_v2(ex, depth - 1, IntMin, IntMax,
                           ex.currentPlayer = BLACK),
                difficulty, seed)

RECURSIVE RootLoop_v2(_, _, _, _, _, _)
RootLoop_v2(st, allMoves, hi, depth, difficulty, seed) ==
    IF st.i > hi \/ ~st.returns THEN st
    ELSE IF st.i = hi
    THEN RootTrial_v2(st, allMoves[st.i],
                      executeMoveInternal_v2(st.game, allMoves[st.i], QUEEN),
                      depth, difficulty, seed)
    ELSE RootLoop_v2(RootLoop_v2(st, allMoves, (st.i + hi) \div 2,
                                 depth, difficulty, seed),
                     allMoves, hi, depth, difficulty, seed)

\* getBestMove once the moves are scored and sorted: om is what that left.
BestSorted_v2(om, depth, difficulty, seed) ==
    IF ~om.returns THEN [returns |-> FALSE, move |-> NoMove, game |-> om.game]
    ELSE LET st == RootLoop_v2(
                       [i |-> 1, returns |-> TRUE, game |-> om.game,
                        bestMove |-> om.moves[1],
                        bestScore |-> IF om.game.currentPlayer = WHITE
                                      THEN IntMin ELSE IntMax],
                       om.moves, Len(om.moves), depth, difficulty, seed)
         IN [returns |-> st.returns, move |-> st.bestMove, game |-> st.game]

\* getBestMove from "if (allMoves.empty())" on.
BestOver_v2(am, depth, difficulty, seed) ==
    IF ~am.returns THEN [returns |-> FALSE, move |-> NoMove, game |-> am.game]
    ELSE IF Len(am.moves) = 0
    THEN [returns |-> TRUE, move |-> NoMove, game |-> am.game]
    ELSE BestSorted_v2(Ordered_v2(am), depth, difficulty, seed)

getBestMove_v2(g, depth, difficulty, seed) ==
    BestOver_v2(AllMoves_v2(g, FALSE), depth, difficulty, seed)

\* A faulty variant of GameOverStep: what getLegalMoves returned is ignored.
GameOverStepIgnored(st, lm) ==
    [i |-> st.i + 1, ret |-> st.ret, game |-> lm.game]

\* The body of the double loop of isGameOver on a square of the side to move:
\* lm is what getLegalMoves returned and left.
GameOverStep(st, lm) ==
    [i |-> st.i + 1, ret |-> Len(lm.moves) = 0, game |-> lm.game]

\* The double loop of isGameOver from square st.i (row * 8 + col) up to square
\* hi; it is left, with ret false, at the first square that has a legal move.
RECURSIVE GameOverLoop(_, _)
GameOverLoop(st, hi) ==
    IF st.i > hi \/ ~st.ret THEN st
    ELSE IF st.i = hi
    THEN IF st.game.board[st.i \div 8][st.i % 8].color = st.game.currentPlayer
         THEN GameOverStep(st, getLegalMoves(st.game, st.i \div 8, st.i % 8))
         ELSE [st EXCEPT !.i = st.i + 1]
    ELSE GameOverLoop(GameOverLoop(st, (st.i + hi) \div 2), hi)

RetAndGame(st) == [ret |-> st.ret, game |-> st.game]

\* ChessGame::isGameOver: what it returns and the record it leaves.
isGameOver(g) ==
    RetAndGame(GameOverLoop([i |-> 0, ret |-> TRUE, game |-> g], 63))

(***************************************************************************)
(* The JNI boundary: the process-wide `game` pointer and `aiDifficulty`.   *)
(*                                                                         *)
(* `last` is the last call made on the game, with the value it returned.   *)
(* The caller's moves follow one of the opening lines below (`scenario`,   *)
(* `ply` moves of it played) and then are free: `free` counts the moves    *)
(* made after the line, `searched` the getComputerMove calls on this game, *)
(* `asked` the queries made since the last move.                           *)
(***************************************************************************)
NoGame == [board |-> <<>>]

\* Each line is a sequence of makeMove arguments <<fromRow, fromCol, toRow,
\* toCol>> played from the initial position.
Lines == <<
    \* the empty line: play starts at the initial position
    <<>>,
    \* 1.e4 e6 2.d4 a6 3.Nf3 a5 4.Bd3 Bb4+: White, in check, has f1 and g1 empty
    <<<<6, 4, 4, 4>>, <<1, 4, 2, 4>>, <<6, 3, 4, 3>>, <<1, 0, 2, 0>>,
      <<7, 6, 5, 5>>, <<2, 0, 3, 0>>, <<7, 5, 5, 3>>, <<0, 5, 4, 1>>>>,
    \* 1.e4 a6 2.e5 d5: White may capture d5 en passant
    <<<<6, 4, 4, 4>>, <<1, 0, 2, 0>>, <<4, 4, 3, 4>>, <<1, 3, 3, 3>>>>,
    \* 1.a4 b5 2.axb5 a6 3.bxa6 Nc6 4.a7 Rb8: White may promote on a8 or b8
    <<<<6, 0, 4, 0>>, <<1, 1, 3, 1>>, <<4, 0, 3, 1>>, <<1, 0, 2, 0>>,
      <<3, 1, 2, 0>>, <<0, 1, 2, 2>>, <<2, 0, 1, 0>>, <<0, 0, 0, 1>>>>,
    \* 1.d4 a6 2.d5 a5 3.d6 a4 4.dxe7 a3: a white pawn stands on e7
    <<<<6, 3, 4, 3>>, <<1, 0, 2, 0>>, <<4, 3, 3, 3>>, <<2, 0, 3, 0>>,
      <<3, 3, 2, 3>>, <<3, 0, 4, 0>>, <<2, 3, 1, 4>>, <<4, 0, 5, 0>>>>,
    \* 1.e4 e5 2.Nf3 Nc6 3.Bc4 Bc5: White may castle king side
    <<<<6, 4, 4, 4>>, <<1, 4, 3, 4>>, <<7, 6, 5, 5>>, <<0, 1, 2, 2>>,
      <<7, 5, 4, 2>>, <<0, 5, 3, 2>>>>,
    \* 1.g3 e6 2.Bg2 Nc6 3.Nh3 Nd4 4.d3 Qg5 5.Qd2 Qg4 6.Qh6 Qxe2+: White is
    \* checked by a guarded queen next to the king, with f1 and g1 empty
    <<<<6, 6, 5, 6>>, <<1, 4, 2, 4>>, <<7, 5, 6, 6>>, <<0, 1, 2, 2>>,
      <<7, 6, 5, 7>>, <<2, 2, 4, 3>>, <<6, 3, 5, 3>>, <<0, 3, 3, 6>>,
      <<7, 3, 6, 3>>, <<3, 6, 4, 6>>, <<6, 3, 2, 7>>, <<4, 6, 6, 4>>>>,
    \* 1.f3 e5 2.g4 Qh4: White is checkmated
    <<<<6, 5, 5, 5>>, <<1, 4, 3, 4>>, <<6, 6, 4, 6>>, <<0, 3, 4, 7>>>>,
    \* 1.e3 a5 2.Qh5 Ra6 3.Qxa5 h5 4.h4 Rah6 5.Qxc7 f6 6.Qxd7+ Kf7 7.Qxb7 Qd3
    \* 8.Qxb8 Qh7 9.Qxc8 Kg6 10.Qe6: Black is stalemated
    <<<<6, 4, 5, 4>>, <<1, 0, 3, 0>>, <<7, 3, 3, 7>>, <<0, 0, 2, 0>>,
      <<3, 7, 3, 0>>, <<1, 7, 3, 7>>, <<6, 7, 4, 7>>, <<2, 0, 2, 7>>,
      <<3, 0, 1, 2>>, <<1, 5, 2, 5>>, <<1, 2, 1, 3>>, <<0, 4, 1, 5>>,
      <<1, 3, 1, 1>>, <<0, 3, 5, 3>>, <<1, 1, 0, 1>>, <<5, 3, 1, 7>>,
      <<0, 1, 0, 2>>, <<1, 5, 2, 6>>, <<0, 2, 2, 4>>>>,
    \* 1.f3 e5 2.g4: Black, to move, may mate with Qh4
    <<<<6, 5, 5, 5>>, <<1, 4, 3, 4>>, <<6, 6, 4, 6>>>>,
    \* 1.e4 Nf6 2.Bc4 Nxe4 3.Nh3 Ng3 4.a3 Nxh1: White's king's rook has been
    \* taken on its corner, with f1 and g1 empty and the king unmoved
    <<<<6, 4, 4, 4>>, <<0, 6, 2, 5>>, <<7, 5, 4, 2>>, <<2, 5, 4, 4>>,
      <<7, 6, 5, 7>>, <<4, 4, 5, 6>>, <<6, 0, 5, 0>>, <<5, 6, 7, 7>>>>
>>

\* Moves made after the line.
MaxFree == 1

\* getComputerMove calls on one game.
MaxSearches == 1

\* setDifficulty arguments tried.
MaxDepth == 2

\* Random streams tried.
NumSeeds == 2

\* Queries and refused probes between two moves.
MaxQueries == 1

\* Coordinates passed to the boundary: the board and one step off each edge.
Coord == -1..8

Call(op, args, ret) == [op |-> op, args |-> args, ret |-> ret]

InLine == ply < Len(Lines[scenario])

Init ==
    /\ game = NoGame
    /\ aiDifficulty = 2
    /\ last = Call("none", <<>>, 0)
    /\ scenario = 1
    /\ ply = 0
    /\ free = 0
    /\ searched = 0
    /\ asked = 0

\* A faulty variant of InitGame: the pieces are set up again, but the side to
\* move of a game that exists is kept.
InitGameKept ==
    /\ game' = IF game = NoGame THEN initializeBoard
                ELSE [initializeBoard EXCEPT !.currentPlayer = game.currentPlayer]
    /\ last' = Call("initGame", <<>>, 0)
    /\ scenario' \in 1..Len(Lines)
    /\ ply' = 0
    /\ free' = 0
    /\ searched' = 0
    /\ asked' = 0
    /\ UNCHANGED aiDifficulty

\* Java_..._initGame
InitGame ==
    /\ game' = initializeBoard
    /\ last' = Call("initGame", <<>>, 0)
    /\ scenario' \in 1..Len(Lines)
    /\ ply' = 0
    /\ free' = 0
    /\ searched' = 0
    /\ asked' = 0
    /\ UNCHANGED aiDifficulty

\* Java_..._setDifficulty
SetDifficulty ==
    /\ \E difficulty \in 1..MaxDepth :
          /\ difficulty # aiDifficulty
          /\ aiDifficulty' = difficulty
    /\ UNCHANGED <<game, last, scenario, ply, free, searched, asked>>

\* Java_..._makeMove with the arguments a, given what ChessGame::makeMove
\* returned (r).  A refused call is recorded without its arguments.
MakeMoveDone(a, r) ==
    /\ game' = r.game
    /\ last' = Call("makeMove", IF r.ret THEN a ELSE <<>>, r.ret)
    /\ ply' = IF r.ret /\ InLine THEN ply + 1 ELSE ply
    /\ free' = IF r.ret /\ ~InLine THEN free + 1 ELSE free
    /\ asked' = IF r.ret THEN 0 ELSE asked
    /\ UNCHANGED <<aiDifficulty, scenario, searched>>

\* The destinations tried from a square whose legal moves are lm: all of them,
\* or one when no move is legal and every destination is refused alike.
Destinations(lm) == IF Len(lm.moves) = 0 THEN {-1} ELSE Coord

\* Java_..._makeMove while the caller follows its line (or has no game).
MakeMoveInLine ==
    IF game = NoGame
    THEN /\ last' = Call("makeMove", <<>>, FALSE)
         /\ UNCHANGED <<game, aiDifficulty, scenario, ply, free, searched, asked>>
    ELSE /\ InLine
         /\ \E a \in {Lines[scenario][ply + 1]} :
               \E r \in {makeMove(game, a[1], a[2], a[3], a[4], QUEEN)} :
                  MakeMoveDone(a, r)

\* Java_..._makeMove once the line is played: any arguments.
MakeMoveFree ==
    /\ game # NoGame
    /\ ~InLine
    /\ free < MaxFree
    /\ \E fromRow \in Coord, fromCol \in Coord :
          \E lm \in {getLegalMoves(game, fromRow, fromCol)} :
             \E toRow \in Destinations(lm), toCol \in Destinations(lm) :
                \E r \in {makeMoveFrom(lm, toRow, toCol, QUEEN)} :
                   MakeMoveDone(<<fromRow, fromCol, toRow, toCol>>, r)

MakeMove == MakeMoveInLine \/ MakeMoveFree

\* Java_..._getComputerMove, given what ChessGame::getBestMove returned (r).
GetComputerMoveDone(r) ==
    /\ game' = r.game
    /\ last' = Call("getComputerMove", <<>>,
                    <<r.move.fromRow, r.move.fromCol,
                      r.move.toRow, r.move.toCol>>)
    /\ searched' = searched + 1
    /\ UNCHANGED <<aiDifficulty, scenario, ply, free, asked>>

\* Java_..._getComputerMove: depth = aiDifficulty.  The computer is asked
\* once the line is played and before the free moves.
GetComputerMove ==
    IF game = NoGame
    THEN /\ last' = Call("getComputerMove", <<>>, <<>>)
         /\ UNCHANGED <<game, aiDifficulty, scenario, ply, free, searched, asked>>
    ELSE /\ ~InLine
         /\ free = 0
         /\ searched < MaxSearches
         /\ \E seed \in 0..(NumSeeds - 1) :
               \E r \in {getBestMove(game, aiDifficulty, seed)} :
                  GetComputerMoveDone(r)

\* Coordinates passed to the queries: the two rows and columns at each edge
\* of the board and one step off each edge.
QueryCoord == {-1, 0, 1, 6, 7, 8}

\* Java_..._getPiece
GetPiece ==
    /\ asked < MaxQueries
    /\ \E row \in QueryCoord, col \in QueryCoord :
          last' = Call("getPiece", <<row, col>>,
                       IF game = NoGame THEN 0 ELSE getPiece(game, row, col))
    /\ asked' = asked + 1
    /\ UNCHANGED <<game, aiDifficulty, scenario, ply, free, searched>>

\* The jintArray filled by Java_..._getLegalMoves: toRow, toCol of each move.
Positions(moves) ==
    [k \in 1..(2 * Len(moves)) |->
        IF k % 2 = 1 THEN moves[(k + 1) \div 2].toRow
        ELSE moves[k \div 2].toCol]

\* Java_..._getLegalMoves
GetLegalMoves ==
    /\ asked < MaxQueries
    /\ asked' = asked + 1
    /\ \E row \in QueryCoord, col \in QueryCoord :
          IF game = NoGame
          THEN /\ last' = Call("getLegalMoves", <<row, col>>, <<>>)
               /\ game' = game
          ELSE \E lm \in {getLegalMoves(game, row, col)} :
                  /\ last' = Call("getLegalMoves", <<row, col>>,
                                  Positions(lm.moves))
                  /\ game' = lm.game
    /\ UNCHANGED <<aiDifficulty, scenario, ply, free, searched>>

\* A faulty variant of GetCurrentPlayer: no colour is returned without a game.
GetCurrentPlayerNone ==
    /\ last' = Call("getCurrentPlayer", <<>>,
                    IF game = NoGame THEN NONE ELSE game.currentPlayer)
    /\ asked < MaxQueries
    /\ asked' = asked + 1
    /\ UNCHANGED <<game, aiDifficulty, scenario, ply, free, searched>>

\* Java_..._getCurrentPlayer
GetCurrentPlayer ==
    /\ last' = Call("getCurrentPlayer", <<>>,
                    IF game = NoGame THEN 1 ELSE game.currentPlayer)
    /\ asked < MaxQueries
    /\ asked' = asked + 1
    /\ UNCHANGED <<game, aiDifficulty, scenario, ply, free, searched>>

\* Java_..._isGameOver
IsGameOver ==
    /\ asked < MaxQueries
    /\ asked' = asked + 1
    /\ IF game = NoGame
       THEN /\ last' = Call("isGameOver", <<>>, FALSE)
            /\ game' = game
       ELSE \E r \in {isGameOver(game)} :
               /\ last' = Call("isGameOver", <<>>, r.ret)
               /\ game' = r.game
    /\ UNCHANGED <<aiDifficulty, scenario, ply, free, searched>>

\* The squares one step off the board among those asked about.
OffBoard ==
    {sq \in QueryCoord \X QueryCoord : ~isValidPosition(sq[1], sq[2])}

\* Java_..._makeMove with an origin or a destination off the board: from a
\* square off the board to the middle of the board, and from the corners of
\* the pawn rows to a square off the board.  The call is recorded with its
\* arguments.
MakeMoveOffBoard ==
    /\ game # NoGame
    /\ asked < MaxQueries
    /\ \E a \in {<<sq[1], sq[2], 4, 4>> : sq \in OffBoard}
               \cup {<<6, 0, sq[1], sq[2]>> : sq \in OffBoard}
               \cup {<<1, 7, sq[1], sq[2]>> : sq \in OffBoard} :
          \E r \in {makeMove(game, a[1], a[2], a[3], a[4], QUEEN)} :
             /\ game' = r.game
             /\ last' = Call("makeMove", a, r.ret)
             /\ free' = IF r.ret THEN free + 1 ELSE free
             /\ asked' = IF r.ret THEN 0 ELSE asked + 1
    /\ UNCHANGED <<aiDifficulty, scenario, ply, searched>>

Next ==
    \/ InitGame
    \/ SetDifficulty
    \/ MakeMove
    \/ GetComputerMove

Spec == Init /\ [][Next]_vars

\* The caller follows its line and asks about the game between the moves.
QueryNext ==
    \/ InitGame
    \/ MakeMoveInLine
    \/ MakeMoveOffBoard
    \/ GetPiece
    \/ GetLegalMoves
    \/ GetCurrentPlayer
    \/ IsGameOver

QuerySpec == Init /\ [][QueryNext]_vars

(***************************************************************************)
(* Properties                                                              *)
(***************************************************************************)
Range(seq) == {seq[i] : i \in 1..Len(seq)}

\* The squares holding a piece of the side to move.
OwnSquares(g) ==
    {sq \in (0..7) \X (0..7) : g.board[sq[1]][sq[2]].color = g.currentPlayer}

\* The pseudo-legal moves of the side to move.
PseudoMoves(g) ==
    UNION {Range(getPseudoLegalMoves(g, sq[1], sq[2])) : sq \in OwnSquares(g)}

\* C1: in every reachable state, for every pseudo-legal move of the side to
\* move, isLegalMove returns leaving the board (with the hasMoved bits), the
\* side to move, the en-passant target and the castling flags as they were.
C1_IsLegalMoveRestores ==
    game # NoGame =>
        \A m \in PseudoMoves(game) : isLegalMove(game, m).game = game

\* C1 at work: isLegalMove has run (inside makeMove) and the position offers
\* an en-passant capture, a legal one, to run it on again.
C1_Witness ==
    /\ game # NoGame
    /\ last.op = "makeMove"
    /\ \E m \in PseudoMoves(game) :
          m.isEnPassant /\ isLegalMove(game, m).legal

\* C2: getBestMove commits nothing: after getComputerMove has returned, the
\* whole game record equals the record before the call.
C2_SearchLeavesGame ==
    [][searched' = searched + 1 => game' = game]_vars

\* C3: the move getBestMove returns, unless it is the no-move sentinel, is
\* accepted by a makeMove call made right after getBestMove has returned.
C3_ReturnedMoveAccepted ==
    (game # NoGame /\ last.op = "getComputerMove"
        /\ last.ret # <<-1, -1, -1, -1>>) =>
        makeMove(game, last.ret[1], last.ret[2], last.ret[3], last.ret[4],
                 QUEEN).ret

\* The legal moves of the side to move from (fr, fc): the pseudo-legal moves
\* there that isLegalMove accepts.
LegalFrom(g, fr, fc) ==
    IF ~isValidPosition(fr, fc) THEN {}
    ELSE IF g.board[fr][fc].type = EMPTY
            \/ g.board[fr][fc].color # g.currentPlayer THEN {}
    ELSE {m \in Range(getPseudoLegalMoves(g, fr, fc)) : isLegalMove(g, m).legal}

\* Those of the moves legal that lead to (tr, tc).
LegalTo(legal, tr, tc) == {m \in legal : m.toRow = tr /\ m.toCol = tc}

\* What C4 asks of the result r of makeMove, given the legal moves hits that
\* lead from the origin to the destination.
MakeMoveAsAsked(g, r, hits) ==
    /\ r.ret = (hits # {})
    /\ r.ret => \E m \in hits :
                    /\ hits = {m}
                    /\ r.game = executeMoveInternal(g, m, QUEEN)
    /\ ~r.ret => r.game = g

\* C4: makeMove returns true exactly when a legal move of the side to move
\* leads from the origin to the destination, and then that move, and nothing
\* else, is executed; when it returns false the game record is unchanged.
C4_MakeMoveContract ==
    game # NoGame =>
        \A fromRow \in Coord, fromCol \in Coord :
            \A lm \in {getLegalMoves(game, fromRow, fromCol)},
               legal \in {LegalFrom(game, fromRow, fromCol)} :
                \A toRow \in Coord, toCol \in Coord :
                    MakeMoveAsAsked(
                        game, makeMoveFrom(lm, toRow, toCol, QUEEN),
                        LegalTo(legal, toRow, toCol))

\* C4 at work: makeMove has refused a call on a game in which moves have been
\* made and legal moves exist.
C4_Witness ==
    /\ game # NoGame
    /\ ply > 0
    /\ last.op = "makeMove"
    /\ last.ret = FALSE
    /\ \E sq \in OwnSquares(game) :
          Len(getLegalMoves(game, sq[1], sq[2]).moves) > 0

\* The castling flags of a colour.
KingMoved(g, color) ==
    IF color = WHITE THEN g.whiteKingMoved ELSE g.blackKingMoved

RookMoved(g, color, rookCol) ==
    IF color = WHITE
    THEN (IF rookCol = 7 THEN g.whiteRookHMoved ELSE g.whiteRookAMoved)
    ELSE (IF rookCol = 7 THEN g.blackRookHMoved ELSE g.blackRookAMoved)

\* The conditions C5 puts on a castling move m of colour `color`.
CastlingAllowed(g, m, color) ==
    LET row == m.fromRow
        rookCol == IF m.toCol = 6 THEN 7 ELSE 0
        between == IF m.toCol = 6 THEN {5, 6} ELSE {1, 2, 3}
        crossed == IF m.toCol = 6 THEN {5, 6} ELSE {3, 2}
    IN /\ ~isInCheck(g, color)
       /\ ~KingMoved(g, color)
       /\ g.board[row][4] = Piece(KING, color, FALSE)
       /\ ~RookMoved(g, color, rookCol)
       /\ g.board[row][rookCol] = Piece(ROOK, color, FALSE)
       /\ \A c \in between : g.board[row][c].type = EMPTY
       /\ \A c \in crossed : ~isSquareAttacked(g, row, c, Opponent(color))

\* C5: getLegalMoves holds a castling move only if the king is not in check,
\* neither king nor rook has moved, the squares between them are empty and
\* the squares the king crosses and reaches are not attacked.
C5_CastlingOnlyWhenAllowed ==
    game # NoGame =>
        \A sq \in OwnSquares(game) :
            \A m \in Range(getLegalMoves(game, sq[1], sq[2]).moves) :
                m.isCastling => CastlingAllowed(game, m, game.currentPlayer)

\* C6: isLegalMove refuses a pseudo-legal move exactly when the move, once
\* executed, leaves the mover's king attacked; and in every state reached by
\* makeMove calls alone the side that has just moved is not in check.
C6_NoSelfCheck ==
    game # NoGame =>
        /\ \A m \in PseudoMoves(game) :
              isLegalMove(game, m).legal
                  = ~isInCheck(executeMoveInternal(game, m, QUEEN),
                               game.currentPlayer)
        /\ searched = 0 => ~isInCheck(game, Opponent(game.currentPlayer))

\* C6 at work: White, checked at the end of the second line, has answered
\* with a move that makeMove accepted.
C6_Witness ==
    /\ scenario = 2
    /\ searched = 0
    /\ free = 1
    /\ last.op = "makeMove"
    /\ last.ret = TRUE

Kings(g, color) ==
    {sq \in (0..7) \X (0..7) : g.board[sq[1]][sq[2]].type = KING
                                /\ g.board[sq[1]][sq[2]].color = color}

\* C7: in every state reached by makeMove and getBestMove calls the board
\* holds exactly one white king and exactly one black king.
C7_OneKingEach ==
    game # NoGame =>
        /\ Cardinality(Kings(game, WHITE)) = 1
        /\ Cardinality(Kings(game, BLACK)) = 1

\* The legal moves getLegalMoves reports over all 64 squares.
LegalEverywhere(g) ==
    UNION {Range(getLegalMoves(g, sq[1], sq[2]).moves) :
              sq \in (0..7) \X (0..7)}

\* C8: in the state initializeBoard produces, getLegalMoves over the 64
\* squares reports 20 moves, 16 of pawns and 4 of knights, none of them
\* castling, and none from a black square.
C8_TwentyOpeningMoves ==
    last.op = "initGame" =>
        \A all \in {LegalEverywhere(game)} :
            /\ Cardinality(all) = 20
            /\ Cardinality({m \in all :
                   game.board[m.fromRow][m.fromCol].type = PAWN}) = 16
            /\ Cardinality({m \in all :
                   game.board[m.fromRow][m.fromCol].type = KNIGHT}) = 4
            /\ \A m \in all :
                  /\ ~m.isCastling
                  /\ game.board[m.fromRow][m.fromCol].color = WHITE

\* C8 at work: initGame has just built the board.
C8_Witness == last.op = "initGame" /\ game = initializeBoard

\* The last call was an accepted makeMove of a pawn over two ranks.
DoublePush ==
    /\ game.board[last.args[3]][last.args[4]].type = PAWN
    /\ last.args[1] - last.args[3] \in {-2, 2}

C10_MakeMoveEffect ==
    [][(last'.op = "makeMove" /\ last'.ret = TRUE
            /\ (ply' # ply \/ free' # free)) =>
          /\ getPiece(game', last'.args[1], last'.args[2]) = 0
          /\ getPiece(game', last'.args[3], last'.args[4]) \div 10
                = game.currentPlayer
          /\ game'.currentPlayer = Opponent(game.currentPlayer)
          /\ (game = initializeBoard /\ last'.args = <<6, 4, 4, 4>>) =>
                /\ getPiece(game', 4, 4) = 11
                /\ getPiece(game', 6, 4) = 0
                /\ game'.currentPlayer = BLACK]_vars

\* C10 at work: makeMove(6, 4, 4, 4) has been accepted as the first move.
C10_Witness ==
    /\ game # NoGame
    /\ last.op = "makeMove"
    /\ last.ret = TRUE
    /\ last.args = <<6, 4, 4, 4>>
    /\ ply + free = 1
    /\ searched = 0

\* The side to move has no legal move on any square.
NoLegalMove(g) ==
    \A r \in 0..7, c \in 0..7 : LegalFrom(g, r, c) = {}

LinePlayed(line) == scenario = line /\ ply = Len(Lines[line]) /\ free = 0

\* The lines that end in checkmate and in stalemate have been played.
MatePlayed == LinePlayed(8)

StalematePlayed == LinePlayed(9)

\* C11: isGameOver returns true exactly when the side to move has no legal
\* move on any square; after 1.f3 e5 2.g4 Qh4 it returns true and the side to
\* move is in check; in the stalemate it returns true and the side to move is
\* not in check.
C11_GameOverIffNoLegalMove ==
    (game # NoGame /\ last.op = "isGameOver") =>
        /\ last.ret = NoLegalMove(game)
        /\ MatePlayed =>
              last.ret /\ isInCheck(game, game.currentPlayer)
        /\ StalematePlayed =>
              last.ret /\ ~isInCheck(game, game.currentPlayer)

\* C11 at work: isGameOver has answered in the stalemate.
C11_Witness ==
    /\ game # NoGame
    /\ last.op = "isGameOver"
    /\ last.ret = TRUE
    /\ StalematePlayed
    /\ ~isInCheck(game, game.currentPlayer)

\* C11 at work: isGameOver has answered after the checkmate.
C11_MateReached ==
    /\ game # NoGame
    /\ last.op = "isGameOver"
    /\ MatePlayed

\* C12: evaluateBoard returns 0 on the initial position.
C12_InitialPositionEven ==
    last.op = "initGame" =>
        /\ evaluateBoard(game) = 0
        /\ evaluateBoard_v3(game) = 0

\* C12 at work: a game has just been set up and evaluates to 0.
C12_Witness ==
    /\ last.op = "initGame"
    /\ game.currentPlayer = WHITE
    /\ evaluateBoard(game) = 0

\* The record g without the piece on (0, 3).
WithoutBlackQueen(g) ==
    [g EXCEPT !.board = SetSq(g.board, 0, 3, NoPiece)]

\* C13 as stated: on the initial position, taking Black's queen off (0, 3)
\* raises evaluateBoard by at least 900.
C13_QueenWorthBaseValue ==
    last.op = "initGame" =>
        /\ evaluateBoard(WithoutBlackQueen(game)) - evaluateBoard(game) >= 900
        /\ evaluateBoard_v3(WithoutBlackQueen(game))
              - evaluateBoard_v3(game) >= 900

\* C13 as the code has it: on the initial position, taking Black's queen off
\* (0, 3) raises evaluateBoard by 900 where there is no queen table, and by
\* 900 plus the queen table's entry for that square, 895, where there is one.
C13_QueenWorthBasePlusEntry ==
    last.op = "initGame" =>
        /\ evaluateBoard(WithoutBlackQueen(game)) - evaluateBoard(game) = 900
        /\ evaluateBoard_v3(WithoutBlackQueen(game))
              - evaluateBoard_v3(game) = 895

\* C13 at work: a game has just been set up, Black's queen stands on (0, 3)
\* and is gone from the record evaluated second.
C13_Witness ==
    /\ last.op = "initGame"
    /\ getPiece(game, 0, 3) = 25
    /\ getPiece(WithoutBlackQueen(game), 0, 3) = 0
    /\ evaluateBoard_v3(WithoutBlackQueen(game)) # evaluateBoard_v3(game)

\* The legal moves of the side to move that capture, castle, capture en
\* passant or promote.
SpecialMoves(g) ==
    {m \in UNION {LegalFrom(g, r, c) : r \in 0..7, c \in 0..7} :
        m.isCapture \/ m.isCastling \/ m.isEnPassant \/ m.isPromotion}

\* C14: executeMoveInternal of a legal capture, castling, en-passant capture
\* or promotion followed by the restore the search performs around a trial
\* move gives back the record before the move.
C14_ExecuteThenUndo ==
    game # NoGame =>
        \A m \in SpecialMoves(game) :
            RestoreAfterTrial(game, executeMoveInternal(game, m, QUEEN), m)
                = game

\* The value the call l returned is the default of its operation.
SafeDefault(l) ==
    /\ l.op \in {"getPiece", "getLegalMoves", "makeMove", "isGameOver",
                  "getCurrentPlayer"}
    /\ l.op = "getPiece" => l.ret = 0
    /\ l.op = "getLegalMoves" => l.ret = <<>>
    /\ l.op = "makeMove" => l.ret = FALSE
    /\ l.op = "isGameOver" => l.ret = FALSE
    /\ l.op = "getCurrentPlayer" => l.ret = 1

\* C15: while there is no game, getPiece returns 0, getLegalMoves an empty
\* sequence, makeMove false, isGameOver false and getCurrentPlayer 1, and
\* none of them creates a game; only initGame does.
C15_NoGameDefaults ==
    [][game = NoGame =>
          \/ last'.op = "initGame" /\ game' # NoGame
          \/ game' = NoGame /\ SafeDefault(last')]_vars

\* C15 at work: getCurrentPlayer has answered 1 while there is no game.
C15_Witness ==
    /\ game = NoGame
    /\ last.op = "getCurrentPlayer"
    /\ last.ret = 1

StartingPosition(g) ==
    /\ \A r \in 0..7, c \in 0..7 :
          g.board[r][c] =
              IF r \in {0, 7}
              THEN Piece(BackRank[c + 1], IF r = 0 THEN BLACK ELSE WHITE, FALSE)
              ELSE IF r \in {1, 6}
              THEN Piece(PAWN, IF r = 1 THEN BLACK ELSE WHITE, FALSE)
              ELSE NoPiece
    /\ g.currentPlayer = WHITE
    /\ ~g.whiteKingMoved /\ ~g.blackKingMoved
    /\ ~g.whiteRookAMoved /\ ~g.whiteRookHMoved
    /\ ~g.blackRookAMoved /\ ~g.blackRookHMoved
    /\ g.enPassantCol = -1 /\ g.enPassantRow = -1

\* C17: whatever the state before, after initGame the game is the starting
\* position (where the record has clocks and a history: half-move clock 0,
\* full-move number 1, empty history), so that a second initGame changes
\* nothing.
C17_InitGameFresh ==
    [][last'.op = "initGame" =>
          /\ StartingPosition(game')
          /\ game' = initializeBoard
          /\ StartingPosition(initializeBoard_v2)
          /\ initializeBoard_v2.halfMoveClock = 0
          /\ initializeBoard_v2.fullMoveNumber = 1
          /\ initializeBoard_v2.moveHistory = <<>>]_vars

\* C17 at work: initGame has been called after other calls and has left the
\* starting position.
C17_Witness ==
    /\ last.op = "initGame"
    /\ aiDifficulty # 2
    /\ StartingPosition(game)

\* C18: getComputerMove answers (-1, -1, -1, -1) when the side to move has
\* no legal move and when there is no game; in every other case it answers
\* four coordinates in 0..7.
\* (A step of getComputerMove changes the operation called last or the number
\* of searches made.)
C18_SentinelOrCoordinates ==
    [][last'.op = "getComputerMove" =>
       IF game = NoGame \/ NoLegalMove(game)
       THEN last'.ret = <<-1, -1, -1, -1>>
       ELSE /\ Len(last'.ret) = 4
            /\ \A k \in 1..4 : last'.ret[k] \in 0..7]_<<last.op, searched>>

\* C20: in every state the game reaches, the initial position included, the
\* attack test behind isInCheck returns for both colours: castling and the
\* attack test do not call each other without end.
C20_AttackTestReturns ==
    game # NoGame =>
        \A color \in {WHITE, BLACK} : isInCheck_v2(game, color, {}).returns

\* C19: evaluateBoard reads the game and leaves it as it found it: the board,
\* the side to move, the en-passant target and the six flags are the same
\* after the call, although the mobility bonus sets currentPlayer and runs
\* getLegalMoves for every piece.
C19_EvaluateLeavesGame ==
    game # NoGame =>
        \A e \in {evaluateBoard_v2(game)} : e.returns => e.game = game

\* C19 at work: Black is to move, an en-passant target is set, and
\* evaluateBoard returns.
C19_Witness ==
    /\ game # NoGame
    /\ game.currentPlayer = BLACK
    /\ game.enPassantCol # -1
    /\ evaluateBoard_v2(game).returns

\* The value of the minimax call the second loop of getBestMove makes on the
\* record g a root move left, with remaining depth d.
RootCallValue(g, d) ==
    minimax(g, d, -999999, 999999, g.currentPlayer = BLACK).val

\* C21: a minimax call made by getBestMove with remaining depth above 0 on a
\* position whose side to move has no legal move returns 0 if that side is
\* not in check, -999999 if White is mated and 999999 if Black is mated.
C21_TerminalScores ==
    (game # NoGame /\ last.op = "makeMove" /\ NoLegalMove(game)) =>
        \A d \in 1..(MaxDepth - 1) :
            RootCallValue(game, d) =
                IF ~isInCheck(game, game.currentPlayer) THEN 0
                ELSE IF game.currentPlayer = WHITE THEN -999999 ELSE 999999

\* The static evaluations of the positions the side to move of g can reach in
\* one legal move.
ReplyValues(g) ==
    {evaluateBoard(executeMoveInternal(g, m, QUEEN)) :
        m \in Range(AllMoves(g).moves)}

\* C30: the level getBestMove calls minimax on maximises exactly when White
\* is to move there, the evaluation being positive for White: one ply deep,
\* the call returns the highest evaluation White can reach when White is to
\* move and the lowest Black can reach when Black is to move.
C30_MaximizingIsWhiteToMove ==
    (game # NoGame /\ last.op = "makeMove" /\ ReplyValues(game) # {}) =>
        \E v \in ReplyValues(game) :
            /\ v = RootCallValue(game, 1)
            /\ \A w \in ReplyValues(game) :
                  IF game.currentPlayer = WHITE THEN w <= v ELSE v <= w

\* The moves the second loop of getBestMove goes through, in its order.
RootMoves(g, seed) ==
    LET am == AllMoves(g)
    IN SortByScore(OrderingLoop([i |-> 1, moves |-> am.moves,
                                 game |-> am.game], Len(am.moves), seed).moves)

\* The move rs.bestMove is one of the moves tried and its score is the best
\* of the scores for the player.
BestOfScores(rs, allMoves, player) ==
    \E k \in 1..Len(allMoves) :
        /\ allMoves[k] = rs.bestMove
        /\ rs.scores[k] = rs.bestScore
        /\ \A j \in 1..Len(allMoves) :
              IF player = WHITE THEN rs.scores[j] <= rs.scores[k]
              ELSE rs.scores[k] <= rs.scores[j]

\* The caller has played its line and may ask for the computer's move.
MayAsk == game # NoGame /\ ~InLine /\ free = 0 /\ searched < MaxSearches

\* C22: the move getBestMove returns has the best of the scores minimax gave
\* the root moves, the highest when White is to move and the lowest when
\* Black is, whatever the coin flips; the noise the second revision adds to a
\* score is at most 100 at difficulty 1, at most 50 at difficulty 2, and none
\* from difficulty 3 on.
C22_BestScoreReturned ==
    /\ \A n \in SmallNoise_v2 :
          /\ NoiseAdded_v2(1, n) \in 0..100
          /\ NoiseAdded_v2(2, n) \in 0..50
          /\ \A difficulty \in 3..4 : NoiseAdded_v2(difficulty, n) = 0
    /\ (MayAsk /\ ~NoLegalMove(game)) =>
          \A seed \in 0..(NumSeeds - 1) :
              \A allMoves \in {RootMoves(game, seed)} :
                  BestOfScores(RootSearch(game, allMoves, aiDifficulty, seed),
                               allMoves, game.currentPlayer)

\* C22 at work: Black is to move at the end of a line and the computer has
\* just been asked at depth 2.
C22_Witness ==
    /\ last.op = "getComputerMove"
    /\ game # NoGame
    /\ game.currentPlayer = BLACK
    /\ aiDifficulty = 2
    /\ Len(last.ret) = 4
    /\ last.ret[1] # -1

\* A king has moved: from such a position the calls of the second revision
\* return (see isSquareAttacked_v2).
KingHasMoved(g) == g.whiteKingMoved \/ g.blackKingMoved

\* C23: the move history is a log of the committed moves.  From a position the
\* game reaches, with the history h the game has (nothing reads it; it is
\* taken empty), committing a legal move appends that move and nothing else,
\* and collecting the legal moves and getBestMove leave the history h.
C23_HistoryOfCommittedMoves ==
    (game # NoGame /\ KingHasMoved(game)) =>
        \A g \in {WithHistory(game, <<>>)} :
            \A am \in {AllMoves_v2(g, FALSE)} :
                /\ am.returns => am.game.moveHistory = g.moveHistory
                /\ \A m \in Range(am.moves) :
                      executeMoveInternal_v2(g, m, QUEEN).moveHistory
                          = Append(g.moveHistory, m)
                /\ \A best \in {getBestMove_v2(g, 1, 3, 0)} :
                      best.returns => best.game.moveHistory = g.moveHistory

\* The row a pawn of this colour promotes on.
FarthestRow(color) == IF color = WHITE THEN 0 ELSE 7

PawnSquares(g) ==
    {sq \in (0..7) \X (0..7) : g.board[sq[1]][sq[2]].type = PAWN}

\* C24: every pawn move to the farthest row of its colour is flagged as a
\* promotion, a makeMove that commits one leaves a queen of the mover's colour
\* on the destination, and no pawn ever stands on row 0 or row 7.
C24_PromotionToQueen ==
    [][(game # NoGame /\ game' # NoGame) =>
          /\ \A sq \in PawnSquares(game') : sq[1] \notin {0, 7}
          /\ \A sq \in PawnSquares(game) :
                \A m \in Range(getPawnMoves(game, sq[1], sq[2])) :
                   m.toRow = FarthestRow(game.board[sq[1]][sq[2]].color)
                      => m.isPromotion
          /\ (last'.op = "makeMove" /\ last'.ret /\ game' # game) =>
                \A a \in {last'.args} :
                   (game.board[a[1]][a[2]].type = PAWN /\ a[3] \in {0, 7}) =>
                      game'.board[a[3]][a[4]]
                         = Piece(QUEEN, game.currentPlayer, TRUE)]_vars

\* C24 at work: a pawn has just been moved to the last row by makeMove, with
\* a capture, and a queen stands there.
C24_Witness ==
    /\ game # NoGame
    /\ last.op = "makeMove" /\ last.ret
    /\ scenario = 4 /\ free = 1
    /\ last.args = <<1, 0, 0, 1>>
    /\ game.board[0][1] = Piece(QUEEN, WHITE, TRUE)

\* A makeMove call has just moved a king two columns, with a rook of its
\* colour on the corner of that side: the step commits a castling move.
CastlingCommitted ==
    /\ game # NoGame
    /\ last'.op = "makeMove" /\ last'.ret
    /\ game' # game
    /\ game.board[last'.args[1]][last'.args[2]].type = KING
    /\ Abs(last'.args[4] - last'.args[2]) = 2
    /\ \E corner \in {game.board[last'.args[1]]
                                  [IF last'.args[4] = 6 THEN 7 ELSE 0]} :
          corner.type = ROOK /\ corner.color = game.currentPlayer

\* What castling leaves on the back row `row` of the colour `color`, whose
\* king went to column toCol; the rook's own moved mark is `marked`.
CastlingDone(g, row, toCol, color, marked) ==
    LET rookFrom == IF toCol = 6 THEN 7 ELSE 0
        rookTo == IF toCol = 6 THEN 5 ELSE 3
    IN /\ toCol \in {2, 6}
       /\ g.board[row][toCol] = Piece(KING, color, TRUE)
       /\ g.board[row][rookTo].type = ROOK
       /\ g.board[row][rookTo].color = color
       /\ marked => g.board[row][rookTo].hasMoved
       /\ g.board[row][4] = NoPiece
       /\ g.board[row][rookFrom] = NoPiece
       /\ IF color = WHITE THEN g.whiteKingMoved ELSE g.blackKingMoved
       /\ \A m \in Range(getKingMoves(g, row, toCol)) : ~m.isCastling

\* C25: after a committed castling move the king stands on column 6 or 2 of
\* its back row, the rook of that side stands on column 5 or 3 and is marked
\* moved, the king's origin and the rook's corner are empty, and the mover's
\* king-moved flag is set, so that the colour has no castling move any more.
C25_CastlingCommitted ==
    [][CastlingCommitted =>
          CastlingDone(game', last'.args[1], last'.args[4],
                       game.currentPlayer, TRUE)]_vars

\* The same without the rook's moved mark.
CastlingButMark ==
    [][CastlingCommitted =>
          CastlingDone(game', last'.args[1], last'.args[4],
                       game.currentPlayer, FALSE)]_vars

\* The same for executeMoveInternal of src/v2/native-lib.cpp, on every
\* castling move the side to move has.
CastlingMarked_v2 ==
    game # NoGame =>
        \A sq \in (0..7) \X (0..7) :
           (game.board[sq[1]][sq[2]].type = KING
               /\ game.board[sq[1]][sq[2]].color = game.currentPlayer) =>
              \A m \in Range(getKingMoves(game, sq[1], sq[2])) :
                 m.isCastling =>
                    \E g2 \in {executeMoveInternal_v2(WithHistory(game, <<>>),
                                                       m, QUEEN)} :
                       /\ g2.board[m.toRow][IF m.toCol = 6 THEN 5 ELSE 3]
                             = Piece(ROOK, game.currentPlayer, TRUE)
                       /\ g2.board[m.toRow][m.toCol]
                             = Piece(KING, game.currentPlayer, TRUE)
\* The squares of g that hold a piece of the colour.
PiecesOf(g, color) ==
    {sq \in (0..7) \X (0..7) : g.board[sq[1]][sq[2]].color = color}

\* The squares a move from <<fromRow, fromCol>> to <<toRow, toCol>> may
\* change in g: origin and destination, the square of the pawn taken en
\* passant (a pawn that moves to an empty square of another column), and
\* the corner and the landing square of the rook when a king castles.
MayChange(g, fromRow, fromCol, toRow, toCol) ==
    {<<fromRow, fromCol>>, <<toRow, toCol>>}
    \cup (IF g.board[fromRow][fromCol].type = PAWN /\ toCol # fromCol
              /\ g.board[toRow][toCol].type = EMPTY
           THEN {<<fromRow, toCol>>} ELSE {})
    \cup (IF g.board[fromRow][fromCol].type = KING /\ Abs(toCol - fromCol) = 2
           THEN IF toCol = 6 THEN {<<fromRow, 7>>, <<fromRow, 5>>}
                ELSE {<<fromRow, 0>>, <<fromRow, 3>>}
           ELSE {})

\* The square whose piece the move takes, if it takes one.
Taken(g, fromRow, fromCol, toRow, toCol) ==
    IF g.board[toRow][toCol].type # EMPTY THEN {<<toRow, toCol>>}
    ELSE IF g.board[fromRow][fromCol].type = PAWN /\ toCol # fromCol
    THEN {<<fromRow, toCol>>}
    ELSE {}

\* C26: a successful makeMove leaves the number of the mover's pieces as it
\* was and takes exactly one piece of the opponent if the move is a capture
\* (en passant: the pawn on the mover's origin row in the destination
\* column) and none otherwise; only the origin, the destination, the square
\* of the pawn taken en passant and the rook squares of a castling change.
C26_PieceCountsAndFrame ==
    [][(game # NoGame /\ last'.op = "makeMove" /\ last'.ret /\ game' # game) =>
          \A a \in {last'.args} :
             \A taken \in {Taken(game, a[1], a[2], a[3], a[4])} :
                /\ Cardinality(PiecesOf(game', game.currentPlayer))
                      = Cardinality(PiecesOf(game, game.currentPlayer))
                /\ Cardinality(PiecesOf(game', game'.currentPlayer))
                      = Cardinality(PiecesOf(game, game'.currentPlayer))
                           - Cardinality(taken)
                /\ taken \subseteq PiecesOf(game, game'.currentPlayer)
                /\ taken \cap PiecesOf(game', game'.currentPlayer) = {}
                /\ game'.currentPlayer = Opponent(game.currentPlayer)
                /\ \A sq \in (0..7) \X (0..7) :
                      game'.board[sq[1]][sq[2]] # game.board[sq[1]][sq[2]]
                         => sq \in MayChange(game, a[1], a[2], a[3], a[4])]_vars

\* C26 at work: makeMove has just taken the pawn on d5 en passant; the pawn
\* stands on d6 and d5 is empty.
C26_Witness ==
    /\ game # NoGame
    /\ last.op = "makeMove" /\ last.ret
    /\ scenario = 3 /\ free = 1
    /\ last.args = <<3, 4, 2, 3>>
    /\ game.board[2][3].type = PAWN
    /\ game.board[3][3] = NoPiece
    /\ Cardinality(PiecesOf(game, BLACK)) = 15
\* The windows quiescence is asked with: the full one, one below and one
\* above every static evaluation, and a narrow one around the balance.
Windows ==
    {<<-999999, 999999>>, <<-30000, -20000>>, <<20000, 30000>>, <<-20, 20>>}

\* The depth minimax gives quiescence.
QuiescenceDepth == 2

\* The positions quiescence is asked on: those of the line in which Black's
\* king has moved, from that move on (so that the calls of the second
\* revision return), before any search.
QuiescenceAsked ==
    /\ game # NoGame
    /\ KingHasMoved(game)
    /\ scenario = 9 /\ searched = 0
    /\ last.op = "makeMove" /\ last.ret

\* C27: quiescence returns the static evaluation at depth 0; at a depth above
\* 0 it returns beta when the static evaluation is at least beta, and
\* otherwise a value between max(alpha, static evaluation) and beta, which is
\* max(alpha, static evaluation) when the side to move has no legal capture
\* or promotion: the moves it tries are legal captures and promotions.
C27_QuiescenceStandPat ==
    QuiescenceAsked =>
        \A g \in {WithHistory(game, <<>>)} :
           \A e \in {evaluateBoard_v2(g)} :
              \A cm \in {AllMoves_v2(g, TRUE)} :
                 /\ e.returns /\ cm.returns
                 /\ \A m \in Range(cm.moves) :
                       /\ m.isCapture \/ m.isPromotion
                       /\ g.board[m.fromRow][m.fromCol].color = g.currentPlayer
                       /\ isLegalMove_v2(g, m).legal
                 /\ \A w \in Windows :
                       /\ quiescence_v2(g, w[1], w[2], 0).val = e.ret
                       /\ \A q \in {quiescence_v2(g, w[1], w[2],
                                                   QuiescenceDepth)} :
                             /\ q.returns
                             /\ IF e.ret >= w[2] THEN q.val = w[2]
                                ELSE /\ Max(w[1], e.ret) <= q.val
                                     /\ q.val <= w[2]
                                     /\ cm.moves = <<>>
                                           => q.val = Max(w[1], e.ret)

\* C27 at work: in a position of that line the full window gives more than
\* the static evaluation, because a capture was tried, and a window below the
\* static evaluation gives its beta.
C27_Witness ==
    /\ QuiescenceAsked
    /\ \E g \in {WithHistory(game, <<>>)} :
          \E e \in {evaluateBoard_v2(g)} :
             /\ e.returns
             /\ AllMoves_v2(g, TRUE).moves # <<>>
             /\ quiescence_v2(g, -999999, 999999, QuiescenceDepth).val > e.ret
             /\ e.ret >= -20000
             /\ quiescence_v2(g, -30000, -20000, QuiescenceDepth).val = -20000

\* The legal castling moves of the side to move.
LegalCastlings(g) ==
    {m \in PseudoMoves(g) : m.isCastling /\ isLegalMove(g, m).legal}

\* C28: whenever a castling move is legal, the corner of that side of the
\* king's back row holds a rook of the king's colour that has never moved; so
\* after a rook was taken on its corner, castling on that side is never legal
\* again.
C28_CastlingNeedsRook ==
    game # NoGame =>
        \A m \in LegalCastlings(game) :
            game.board[m.fromRow][IF m.toCol = 6 THEN 7 ELSE 0]
                = Piece(ROOK, game.currentPlayer, FALSE)

\* The moves in the order opposite to the one they were collected in.
Reversed(moves) == [i \in 1..Len(moves) |-> moves[Len(moves) + 1 - i]]

\* minimax as a recursion of its own, with the break of its two loops taken
\* (cut) or removed, and its moves tried in the order of collection or in the
\* opposite order (reversed).
RECURSIVE minimaxAs(_, _, _, _, _, _, _)
RECURSIVE MinimaxLoopAs(_, _, _, _, _, _, _)
MinimaxLoopAs(st, allMoves, hi, depth, maximizing, cut, reversed) ==
    IF st.i > hi THEN st
    ELSE IF st.i = hi
    THEN LET step == MinimaxStep(
                         st, allMoves[st.i],
                         minimaxAs(executeMoveInternal(st.game,
                                                       allMoves[st.i], QUEEN),
                                   depth - 1, st.alpha, st.beta, ~maximizing,
                                   cut, reversed),
                         maximizing, Len(allMoves))
         IN IF cut THEN step ELSE [step EXCEPT !.i = st.i + 1]
    ELSE MinimaxLoopAs(MinimaxLoopAs(st, allMoves, (st.i + hi) \div 2,
                                     depth, maximizing, cut, reversed),
                       allMoves, hi, depth, maximizing, cut, reversed)

minimaxAs(g, depth, alpha, beta, maximizing, cut, reversed) ==
    IF depth = 0 THEN [val |-> evaluateBoard(g), game |-> g]
    ELSE LET am == AllMoves(g) IN
         IF Len(am.moves) = 0 THEN MinimaxOver(am, depth, alpha, beta, maximizing)
         ELSE ValAndGame(MinimaxLoopAs(
                  [i |-> 1, game |-> am.game,
                   val |-> IF maximizing THEN -999999 ELSE 999999,
                   alpha |-> alpha, beta |-> beta],
                  IF reversed THEN Reversed(am.moves) ELSE am.moves,
                  Len(am.moves), depth, maximizing, cut, reversed))

\* The depth at which the recursions are compared: the least at which a loop
\* of minimax can be left by its break under the full window.
CompareDepth == 2

\* C29: on the position a line ends in, minimax with the full window returns
\* the value of the same recursion without the break, and the value of the
\* same recursion with the moves tried in the opposite order.
C29_PruningKeepsValue ==
    (game # NoGame /\ ~InLine /\ free = 0 /\ searched = 0) =>
        \A mx \in {game.currentPlayer = BLACK} :
           \A v \in {minimax(game, CompareDepth, -999999, 999999, mx).val} :
              /\ minimaxAs(game, CompareDepth, -999999, 999999, mx,
                           TRUE, FALSE).val = v
              /\ minimaxAs(game, CompareDepth, -999999, 999999, mx,
                           FALSE, FALSE).val = v
              /\ minimaxAs(game, CompareDepth, -999999, 999999, mx,
                           TRUE, TRUE).val = v
====
